---------------------------- MODULE Spec2Model ----------------------------
(***************************************************************************)
(* Model of extract_parliament_questions ("data mining/scrap.py"): the     *)
(* order-paper line extractor, the metadata scan over the first lines and  *)
(* the question segmenter, with the try/except boundary of the function;   *)
(* and of process_all_papers, the loop that calls it for every paper of    *)
(* the listing and writes the results to the datasets folder.              *)
(*                                                                         *)
(* Python values are modelled as follows: a str is a TLA+ string, a list   *)
(* a sequence, a dict a function on its keys, and a name that may hold     *)
(* None an option: <<>> for None, <<v>> for the value v.                   *)
(***************************************************************************)
EXTENDS Naturals, Sequences, FiniteSets, TLC

VARIABLES pc, url, metadata, lines, idx, questions, current_question,
          in_questions_section, current_section, exc, result

\* process_all_papers: its place, its names (paper_no is the i of its loop),
\* the datasets folder, and what it has done so far: the urls it has passed
\* to extract_parliament_questions and the results the calls have returned
VARIABLES batch_pc, papers, paper_no, all_results, successful_count, filename,
          original_filename, counter, datasets, calls, outcomes

batch == <<batch_pc, papers, paper_no, all_results, successful_count, filename,
           original_filename, counter, datasets, calls, outcomes>>

vars == <<pc, url, metadata, lines, idx, questions, current_question,
          in_questions_section, current_section, exc, result, batch>>

None == <<>>
Some(v) == <<v>>

(***************************************************************************)
(* Strings: the str operations the function uses.                          *)
(***************************************************************************)
\* the characters i..j of s, clipped to s as a Python slice is
Slice(s, i, j) ==
    IF i > j \/ i > Len(s) \/ j < 1 THEN ""
    ELSE SubSeq(s, IF i < 1 THEN 1 ELSE i, IF j > Len(s) THEN Len(s) ELSE j)

\* the character at position i, "" past the end
Char(s, i) == Slice(s, i, i)

Min(S) == CHOOSE m \in S : \A n \in S : m <= n
Max(S) == CHOOSE m \in S : \A n \in S : n <= m

\* \d of the re module, on ASCII text
IsDigit(c) == c \in {"0", "1", "2", "3", "4", "5", "6", "7", "8", "9"}

\* \s of the re module and the characters str.strip() removes, on ASCII text
IsSpace(c) == c \in {" ", "\t", "\n", "\r", "\f"}

\* sub in s
Contains(s, sub) ==
    \E i \in 1..(Len(s) + 1 - Len(sub)) : Slice(s, i, i + Len(sub) - 1) = sub

\* s.strip()
Strip(s) ==
    LET keep == {i \in 1..Len(s) : ~IsSpace(Char(s, i))}
    IN  IF keep = {} THEN "" ELSE Slice(s, Min(keep), Max(keep))

\* s.split('\n'), from position i on
RECURSIVE SplitFrom(_, _)
SplitFrom(s, i) ==
    LET nl == {j \in i..Len(s) : Char(s, j) = "\n"}
    IN  IF nl = {} THEN <<Slice(s, i, Len(s))>>
        ELSE <<Slice(s, i, Min(nl) - 1)>> \o SplitFrom(s, Min(nl) + 1)

Split(s) == SplitFrom(s, 1)

\* s.replace(old, new): the non-overlapping occurrences, left to right
RECURSIVE ReplaceFrom(_, _, _, _)
ReplaceFrom(s, i, old, new) ==
    IF i > Len(s) THEN ""
    ELSE IF Slice(s, i, i + Len(old) - 1) = old
         THEN new \o ReplaceFrom(s, i + Len(old), old, new)
         ELSE Char(s, i) \o ReplaceFrom(s, i + 1, old, new)

Replace(s, old, new) == ReplaceFrom(s, 1, old, new)

UpperLetters == "ABCDEFGHIJKLMNOPQRSTUVWXYZ"
LowerLetters == "abcdefghijklmnopqrstuvwxyz"

LowerChar(c) ==
    LET at == {i \in 1..Len(UpperLetters) : Char(UpperLetters, i) = c}
    IN  IF at = {} THEN c ELSE Char(LowerLetters, Min(at))

\* s.lower()
RECURSIVE LowerFrom(_, _)
LowerFrom(s, i) ==
    IF i > Len(s) THEN "" ELSE LowerChar(Char(s, i)) \o LowerFrom(s, i + 1)

Lower(s) == LowerFrom(s, 1)

(***************************************************************************)
(* The two regular expressions of the segmenter, matched as re.match does. *)
(***************************************************************************)
\* the first position from i on that holds no whitespace (Len(s) + 1 if none)
SkipSpace(s, i) ==
    Min({j \in i..Len(s) : ~IsSpace(Char(s, j))} \cup {Len(s) + 1})

\* the first position from i on that holds no digit (Len(s) + 1 if none)
SkipDigits(s, i) ==
    Min({j \in i..Len(s) : ~IsDigit(Char(s, j))} \cup {Len(s) + 1})

ToAskThe == "to ask the "

\* where the text after "to ask the " starts, when \s+-\s+to ask the (.+?):?$
\* matches line from position q on; 0 when it does not match there
AskTailAt(line, q) ==
    IF q > Len(line) \/ ~IsSpace(Char(line, q)) THEN 0
    ELSE LET dash == SkipSpace(line, q)
         IN  IF dash > Len(line) \/ Char(line, dash) # "-" THEN 0
             ELSE IF dash + 1 > Len(line) \/ ~IsSpace(Char(line, dash + 1)) THEN 0
             ELSE LET lit == SkipSpace(line, dash + 1)
                      rest == lit + Len(ToAskThe)
                  IN  IF Slice(line, lit, rest - 1) = ToAskThe /\ rest <= Len(line)
                      THEN rest ELSE 0

\* MinisterGroup for a pattern without the optional colon: (.+?)$
MinisterGroupKeepColon(line, rest) == Slice(line, rest, Len(line))

\* (.+?):?$ on the text from position rest on: the lazy group gives up a final
\* colon unless the colon is all there is
MinisterGroup(line, rest) ==
    IF Len(line) > rest /\ Char(line, Len(line)) = ":"
    THEN Slice(line, rest, Len(line) - 1)
    ELSE Slice(line, rest, Len(line))

\* question_match for the pattern ^(\d\S*)\s+(.+?)\s+-\s+to ask the (.+?):?$,
\* whose first group is a token that starts with a digit
question_matchAnyToken(line) ==
    LET number_end == Min({j \in 1..Len(line) : IsSpace(Char(line, j))}
                          \cup {Len(line) + 1})
        asker == SkipSpace(line, number_end)
        ends == {q \in (asker + 1)..Len(line) : AskTailAt(line, q) # 0}
    IN  IF Len(line) = 0 \/ ~IsDigit(Char(line, 1)) \/ asker = number_end
           \/ ends = {}
        THEN None
        ELSE Some(<<Slice(line, 1, number_end - 1),
                    Slice(line, asker, Min(ends) - 1),
                    MinisterGroup(line, AskTailAt(line, Min(ends)))>>)

\* re.match(r'^(\d+)\s+(.+?)\s+-\s+to ask the (.+?):?$', line): None, or the
\* three groups. (\d+) takes the whole leading run of digits and \s+ the whole
\* run of whitespace after it; the lazy (.+?) ends at the first position
\* from which the rest of the pattern matches.
question_match(line) ==
    LET number_end == SkipDigits(line, 1)
        asker == SkipSpace(line, number_end)
        ends == {q \in (asker + 1)..Len(line) : AskTailAt(line, q) # 0}
    IN  IF number_end = 1 \/ asker = number_end \/ ends = {} THEN None
        ELSE Some(<<Slice(line, 1, number_end - 1),
                    Slice(line, asker, Min(ends) - 1),
                    MinisterGroup(line, AskTailAt(line, Min(ends)))>>)

\* re.match(r'^\([a-z]\)', line.lower())
part_match(line) ==
    LET low == Lower(line)
    IN  /\ Len(low) >= 3
        /\ Char(low, 1) = "("
        /\ \E i \in 1..Len(LowerLetters) : Char(LowerLetters, i) = Char(low, 2)
        /\ Char(low, 3) = ")"

\* the section marker and the terminators of the question section
IsSectionMarker(line) == Contains(line, "QUESTIONS FOR ORAL ANSWER")

IsTerminator(line) ==
    \/ Contains(line, "MOTIONS")
    \/ Contains(line, "ORDERS OF THE DAY")
    \/ Contains(line, "HIS HONOUR THE VICE PRESIDENT'S QUESTION TIME")

(***************************************************************************)
(* dict operations                                                         *)
(***************************************************************************)
\* d[k] = v
SetKey(d, k, v) == [x \in DOMAIN d \cup {k} |-> IF x = k THEN v ELSE d[x]]

\* del d[k]
DelKey(d, k) == [x \in DOMAIN d \ {k} |-> d[x]]

\* d.get(k, default)
Get(d, k, default) == IF k \in DOMAIN d THEN d[k] ELSE default

(***************************************************************************)
(* Line extraction: the trimmed, non-empty lines of the container's text.  *)
(***************************************************************************)
\* [line.strip() for line in segments if line.strip()]
RECURSIVE StripNonEmpty(_)
StripNonEmpty(segments) ==
    IF segments = <<>> THEN <<>>
    ELSE LET line == Strip(Head(segments))
         IN  (IF line = "" THEN <<>> ELSE <<line>>) \o StripNonEmpty(Tail(segments))

ExtractLines(text_content) == StripNonEmpty(Split(text_content))

(***************************************************************************)
(* Metadata scan: one line of the prefix.                                  *)
(***************************************************************************)
MetadataPrefix == 20

Weekdays == {"MONDAY", "TUESDAY", "WEDNESDAY", "THURSDAY", "FRIDAY"}

InitialMetadata(title, u) ==
    [title |-> title, source_url |-> u, document_type |-> "Order Paper"]

\* MetadataLine with four independent if statements in place of the
\* if/elif chain
MetadataLineIndependent(md, line) ==
    LET md1 == IF Contains(line, "NATIONAL ASSEMBLY OF ZAMBIA")
               THEN SetKey(md, "parliament", line) ELSE md
        md2 == IF Contains(line, "SESSION OF THE") /\ Contains(line, "ASSEMBLY")
               THEN SetKey(md1, "session", line) ELSE md1
        md3 == IF Contains(line, "ORDER PAPER")
                  /\ \E day \in Weekdays : Contains(line, day)
               THEN SetKey(md2, "date", Replace(line, "ORDER PAPER - ", ""))
               ELSE md2
    IN  IF Contains(line, "AT") /\ Contains(line, "HOURS")
        THEN SetKey(md3, "time", line) ELSE md3

\* the body of the loop over lines[:20]: the if/elif chain
MetadataLine(md, line) ==
    IF Contains(line, "NATIONAL ASSEMBLY OF ZAMBIA")
    THEN SetKey(md, "parliament", line)
    ELSE IF Contains(line, "SESSION OF THE") /\ Contains(line, "ASSEMBLY")
    THEN SetKey(md, "session", line)
    ELSE IF Contains(line, "ORDER PAPER") /\ \E day \in Weekdays : Contains(line, day)
    THEN SetKey(md, "date", Replace(line, "ORDER PAPER - ", ""))
    ELSE IF Contains(line, "AT") /\ Contains(line, "HOURS")
    THEN SetKey(md, "time", line)
    ELSE md

(***************************************************************************)
(* Question segmenter.  The segmenter's state st is the record of the four *)
(* names the loop updates: questions, current_question,                    *)
(* in_questions_section and current_section.                               *)
(***************************************************************************)
\* ClassifyInSection without the test of "to ask the" in the last branch
ClassifyInSectionNoAskGuard(st, line) ==
    IF question_match(line) # None THEN "header"
    ELSE IF st.current_question # None /\ part_match(line) THEN "part"
    ELSE IF st.current_question # None /\ st.current_question[1].parts # <<>>
    THEN "continuation"
    ELSE IF st.current_question # None /\ st.current_question[1].parts = <<>>
    THEN "header_text"
    ELSE "drop"

\* The branch a line takes once in_questions_section is known to hold: the
\* if/elif chain on question_match, the parts and "to ask the".
ClassifyInSection(st, line) ==
    IF question_match(line) # None THEN "header"
    ELSE IF st.current_question # None /\ part_match(line) THEN "part"
    ELSE IF st.current_question # None /\ st.current_question[1].parts # <<>>
    THEN "continuation"
    ELSE IF st.current_question # None /\ st.current_question[1].parts = <<>>
            /\ ~Contains(line, "to ask the")
    THEN "header_text"
    ELSE "drop"

\* ClassifyLine without the test of in_questions_section before the header
\* match (the "if in_questions_section:" of the loop body left out)
ClassifyLineNoSectionGuard(st, line) ==
    IF IsSectionMarker(line) THEN "section"
    ELSE IF IsTerminator(line) /\ st.in_questions_section THEN "terminator"
    ELSE ClassifyInSection(st, line)

\* ClassifyLine without the terminator test (the break left out)
ClassifyLineNoTerminator(st, line) ==
    IF IsSectionMarker(line) THEN "section"
    ELSE IF ~st.in_questions_section THEN "outside"
    ELSE ClassifyInSection(st, line)

\* ClassifyLine with the header match tested before the terminator phrases
ClassifyLineHeaderFirst(st, line) ==
    IF IsSectionMarker(line) THEN "section"
    ELSE IF st.in_questions_section /\ question_match(line) # None THEN "header"
    ELSE IF IsTerminator(line) /\ st.in_questions_section THEN "terminator"
    ELSE IF ~st.in_questions_section THEN "outside"
    ELSE ClassifyInSection(st, line)

\* ClassifyLine with the break taken on a terminator phrase anywhere (the
\* "and in_questions_section" of the test left out)
ClassifyLineTerminatorAnywhere(st, line) ==
    IF IsSectionMarker(line) THEN "section"
    ELSE IF IsTerminator(line) THEN "terminator"
    ELSE IF ~st.in_questions_section THEN "outside"
    ELSE ClassifyInSection(st, line)

\* The branch of the loop body a line takes: the guards in the order the
\* code tests them.
ClassifyLine(st, line) ==
    IF IsSectionMarker(line) THEN "section"
    ELSE IF IsTerminator(line) /\ st.in_questions_section THEN "terminator"
    ELSE IF ~st.in_questions_section THEN "outside"
    ELSE ClassifyInSection(st, line)

\* EnterSection with current_section set to the phrase, not to the line
EnterSectionPhraseOnly(st, line) ==
    [st EXCEPT !.in_questions_section = TRUE,
               !.current_section = Some("QUESTIONS FOR ORAL ANSWER")]

\* EnterSection that closes the open question: it is appended to questions
\* and current_question is None again
EnterSectionFlush(st, line) ==
    [st EXCEPT !.in_questions_section = TRUE, !.current_section = Some(line),
               !.questions = IF st.current_question # None
                             THEN Append(@, st.current_question[1]) ELSE @,
               !.current_question = None]

\* in_questions_section = True; current_section = line
EnterSection(st, line) ==
    [st EXCEPT !.in_questions_section = TRUE, !.current_section = Some(line)]

\* the dict built for a header line
NewQuestion(groups, section) ==
    [question_number |-> groups[1],
     asked_by |-> Strip(groups[2]),
     minister |-> Strip(groups[3]),
     section |-> section,
     parts |-> <<>>]

\* StartQuestion that appends the open question only if it has parts
StartQuestionSkipEmpty(st, line) ==
    [st EXCEPT
       !.questions = IF st.current_question # None
                        /\ st.current_question[1].parts # <<>>
                     THEN Append(@, st.current_question[1]) ELSE @,
       !.current_question =
           Some(NewQuestion(question_match(line)[1], st.current_section))]

\* a header line: the open question is appended, a new one is opened
StartQuestion(st, line) ==
    [st EXCEPT
       !.questions = IF st.current_question # None
                     THEN Append(@, st.current_question[1]) ELSE @,
       !.current_question =
           Some(NewQuestion(question_match(line)[1], st.current_section))]

\* AppendPart as current_question["parts"].insert(0, line)
AppendPartFirst(st, line) ==
    [st EXCEPT !.current_question = Some([@[1] EXCEPT !.parts = <<line>> \o @])]

\* AppendPart as questions[-1]["parts"].append(line) once a question is flushed
AppendPartToFlushed(st, line) ==
    IF st.questions = <<>>
    THEN [st EXCEPT !.current_question =
              Some([@[1] EXCEPT !.parts = Append(@, line)])]
    ELSE [st EXCEPT !.questions[Len(st.questions)].parts = Append(@, line)]

\* AppendPart as current_question["parts"].append(line.lower())
AppendPartLowered(st, line) ==
    [st EXCEPT !.current_question =
        Some([@[1] EXCEPT !.parts = Append(@, Lower(line))])]

\* current_question["parts"].append(line)
AppendPart(st, line) ==
    [st EXCEPT !.current_question = Some([@[1] EXCEPT !.parts = Append(@, line)])]

\* ContinuePart under the test of the header continuation: a line with
\* "to ask the" is not joined to the last part
ContinuePartSkipsAsk(st, line) ==
    IF Contains(line, "to ask the") THEN st
    ELSE [st EXCEPT !.current_question =
            Some([@[1] EXCEPT !.parts = [@ EXCEPT ![Len(@)] = @ \o " " \o line]])]

\* ContinuePart as parts[-1] = line + " " + parts[-1]
ContinuePartOnLeft(st, line) ==
    [st EXCEPT !.current_question =
        Some([@[1] EXCEPT !.parts = [@ EXCEPT ![Len(@)] = line \o " " \o @]])]

\* current_question["parts"][-1] += " " + line
ContinuePart(st, line) ==
    [st EXCEPT !.current_question =
        Some([@[1] EXCEPT !.parts = [@ EXCEPT ![Len(@)] = @ \o " " \o line]])]

\* ContinueHeader as current_question["parts"].append(" " + line)
ContinueHeaderAsPart(st, line) ==
    [st EXCEPT !.current_question =
        Some([@[1] EXCEPT !.parts = Append(@, " " \o line)])]

\* current_question["question_text"] =
\*     current_question.get("question_text", "") + " " + line
ContinueHeader(st, line) ==
    [st EXCEPT !.current_question =
        Some(SetKey(@[1], "question_text",
                    Get(@[1], "question_text", "") \o " " \o line))]

\* the loop body on a line that does not end the loop
SegmentLine(st, line) ==
    LET class == ClassifyLine(st, line)
    IN  CASE class = "section" -> EnterSection(st, line)
          [] class = "header" -> StartQuestion(st, line)
          [] class = "part" -> AppendPart(st, line)
          [] class = "continuation" -> ContinuePart(st, line)
          [] class = "header_text" -> ContinueHeader(st, line)
          [] OTHER -> st

\* FlushQuestion without the append after the loop
FlushQuestionDropped(qs, cq) == qs

\* after the loop: the last question, if there is one, is appended
FlushQuestion(qs, cq) == IF cq # None THEN Append(qs, cq[1]) ELSE qs

\* CleanQuestion without the test of the text: question_text is removed
\* whenever it is there
CleanQuestionAlways(q) ==
    IF "question_text" \in DOMAIN q THEN DelKey(q, "question_text") ELSE q

\* a blank question_text is removed
CleanQuestion(q) ==
    IF "question_text" \in DOMAIN q /\ Strip(q["question_text"]) = ""
    THEN DelKey(q, "question_text") ELSE q

(***************************************************************************)
(* The two results of the function.                                        *)
(***************************************************************************)
\* SuccessResult counting only the questions that have parts
SuccessResultCountWithParts(md, qs) ==
    [metadata |-> md, questions |-> qs,
     question_count |-> Cardinality({i \in 1..Len(qs) : qs[i].parts # <<>>}),
     status |-> "success"]

\* SuccessResult reporting an empty list of questions as an error
SuccessResultOrError(md, qs) ==
    IF qs = <<>>
    THEN [status |-> "error", message |-> "No questions found",
          url |-> md.source_url]
    ELSE [metadata |-> md, questions |-> qs, question_count |-> Len(qs),
          status |-> "success"]

SuccessResult(md, qs) ==
    [metadata |-> md, questions |-> qs, question_count |-> Len(qs),
     status |-> "success"]

\* ErrorResult with the metadata key of a success result in place of url
ErrorResultWithMetadata(message, u) ==
    [status |-> "error", message |-> message,
     metadata |-> [source_url |-> u]]

ErrorResult(message, u) ==
    [status |-> "error", message |-> message, url |-> u]

(***************************************************************************)
(* json.dump(obj, f, ensure_ascii=False, indent=2) and json.load(f).  A    *)
(* Python object is a tree of tagged values: None, a str, an int, a list   *)
(* of objects, a dict with its keys in insertion order and their values.   *)
(***************************************************************************)
JNull == [t |-> "null"]
JStr(s) == [t |-> "str", v |-> s]
JInt(n) == [t |-> "int", v |-> n]
JList(items) == [t |-> "list", v |-> items]
JDict(keys, values) == [t |-> "dict", k |-> keys, v |-> values]

DecimalDigits == "0123456789"

\* str(n) of a natural number
RECURSIVE IntToStr(_)
IntToStr(n) ==
    IF n < 10 THEN Char(DecimalDigits, n + 1)
    ELSE IntToStr(n \div 10) \o Char(DecimalDigits, (n % 10) + 1)

\* EscapeChar with the backslash of the escape of a tab escaped again
EscapeCharTabTwice(c) ==
    CASE c = "\"" -> "\\\""
      [] c = "\\" -> "\\\\"
      [] c = "\n" -> "\\n"
      [] c = "\r" -> "\\r"
      [] c = "\t" -> "\\\\t"
      [] c = "\f" -> "\\f"
      [] OTHER -> c

\* the escapes of the encoder when ensure_ascii is false
EscapeChar(c) ==
    CASE c = "\"" -> "\\\""
      [] c = "\\" -> "\\\\"
      [] c = "\n" -> "\\n"
      [] c = "\r" -> "\\r"
      [] c = "\t" -> "\\t"
      [] c = "\f" -> "\\f"
      [] OTHER -> c

RECURSIVE EscapeFrom(_, _)
EscapeFrom(s, p) ==
    IF p > Len(s) THEN "" ELSE EscapeChar(Char(s, p)) \o EscapeFrom(s, p + 1)

EncodeStr(s) == "\"" \o EscapeFrom(s, 1) \o "\""

EncodeInt(n) == IntToStr(n)

\* indent=2: two spaces for each level
RECURSIVE Indent(_)
Indent(level) == IF level = 0 THEN "" ELSE "  " \o Indent(level - 1)

RECURSIVE Encode(_, _)
RECURSIVE EncodeItems(_, _, _)
RECURSIVE EncodeMembers(_, _, _, _)

\* the items of a list from item n on, one to a line
EncodeItems(items, n, level) ==
    IF n > Len(items) THEN ""
    ELSE Indent(level) \o Encode(items[n], level)
         \o (IF n < Len(items) THEN ",\n" ELSE "\n")
         \o EncodeItems(items, n + 1, level)

\* the members of a dict from member n on, one to a line
EncodeMembers(keys, values, n, level) ==
    IF n > Len(keys) THEN ""
    ELSE Indent(level) \o EncodeStr(keys[n]) \o ": " \o Encode(values[n], level)
         \o (IF n < Len(keys) THEN ",\n" ELSE "\n")
         \o EncodeMembers(keys, values, n + 1, level)

Encode(o, level) ==
    CASE o.t = "null" -> "null"
      [] o.t = "str" -> EncodeStr(o.v)
      [] o.t = "int" -> EncodeInt(o.v)
      [] o.t = "list" ->
            IF o.v = <<>> THEN "[]"
            ELSE "[\n" \o EncodeItems(o.v, 1, level + 1) \o Indent(level) \o "]"
      [] o.t = "dict" ->
            IF o.k = <<>> THEN "{}"
            ELSE "{\n" \o EncodeMembers(o.k, o.v, 1, level + 1) \o Indent(level) \o "}"

\* the text json.dump writes for the object o
JsonDump(o) == Encode(o, 0)

IsJsonSpace(c) == c \in {" ", "\t", "\n", "\r"}

SkipJsonSpace(s, p) ==
    Min({j \in p..Len(s) : ~IsJsonSpace(Char(s, j))} \cup {Len(s) + 1})

\* the character that the escape \c stands for
UnescapeChar(c) ==
    CASE c = "n" -> "\n"
      [] c = "r" -> "\r"
      [] c = "t" -> "\t"
      [] c = "f" -> "\f"
      [] OTHER -> c

\* a string from position p (after its opening quote) on: its value after
\* acc, and the position after its closing quote
RECURSIVE DecodeStrFrom(_, _, _)
DecodeStrFrom(s, p, acc) ==
    IF Char(s, p) = "\"" THEN [v |-> acc, p |-> p + 1]
    ELSE IF Char(s, p) = "\\"
         THEN DecodeStrFrom(s, p + 2, acc \o UnescapeChar(Char(s, p + 1)))
         ELSE DecodeStrFrom(s, p + 1, acc \o Char(s, p))

DigitValue(c) == (CHOOSE d \in 1..10 : Char(DecimalDigits, d) = c) - 1

\* int(s) of a run of digits
RECURSIVE StrToIntFrom(_, _, _)
StrToIntFrom(s, p, acc) ==
    IF IsDigit(Char(s, p)) THEN StrToIntFrom(s, p + 1, acc * 10 + DigitValue(Char(s, p)))
    ELSE acc

StrToInt(s) == StrToIntFrom(s, 1, 0)

RECURSIVE Decode(_, _)
RECURSIVE DecodeItems(_, _, _)
RECURSIVE DecodeMembers(_, _, _, _)

\* a list from the position of an item on: the list after acc, and the
\* position after its closing bracket
DecodeItems(s, p, acc) ==
    LET item == Decode(s, p)
        q == SkipJsonSpace(s, item.p)
    IN  IF Char(s, q) = ","
        THEN DecodeItems(s, q + 1, Append(acc, item.v))
        ELSE [v |-> JList(Append(acc, item.v)), p |-> q + 1]

\* a dict from the position of a member on
DecodeMembers(s, p, keys, values) ==
    LET key == DecodeStrFrom(s, SkipJsonSpace(s, p) + 1, "")
        colon == SkipJsonSpace(s, key.p)
        item == Decode(s, colon + 1)
        q == SkipJsonSpace(s, item.p)
    IN  IF Char(s, q) = ","
        THEN DecodeMembers(s, q + 1, Append(keys, key.v), Append(values, item.v))
        ELSE [v |-> JDict(Append(keys, key.v), Append(values, item.v)), p |-> q + 1]

\* the value that starts at position p0 or after whitespace from there, and
\* the position after it
Decode(s, p0) ==
    LET p == SkipJsonSpace(s, p0)
        c == Char(s, p)
    IN  CASE c = "n" -> [v |-> JNull, p |-> p + 4]
          [] c = "\"" -> LET str == DecodeStrFrom(s, p + 1, "")
                         IN  [v |-> JStr(str.v), p |-> str.p]
          [] c = "[" -> IF Char(s, SkipJsonSpace(s, p + 1)) = "]"
                        THEN [v |-> JList(<<>>), p |-> SkipJsonSpace(s, p + 1) + 1]
                        ELSE DecodeItems(s, p + 1, <<>>)
          [] c = "{" -> IF Char(s, SkipJsonSpace(s, p + 1)) = "}"
                        THEN [v |-> JDict(<<>>, <<>>), p |-> SkipJsonSpace(s, p + 1) + 1]
                        ELSE DecodeMembers(s, p + 1, <<>>, <<>>)
          [] OTHER -> LET after == SkipDigits(s, p)
                      IN  [v |-> JInt(StrToInt(Slice(s, p, after - 1))), p |-> after]

\* the object json.load reads from the text s
JsonLoad(s) == Decode(s, 1).v

\* an Optional[str] as an object
OptionObject(x) == IF x = None THEN JNull ELSE JStr(x[1])

RECURSIVE StrObjects(_)
StrObjects(strs) ==
    IF strs = <<>> THEN <<>> ELSE <<JStr(Head(strs))>> \o StrObjects(Tail(strs))

\* the keys among order that d has, in that order
RECURSIVE KeysIn(_, _)
KeysIn(d, order) ==
    IF order = <<>> THEN <<>>
    ELSE (IF Head(order) \in DOMAIN d THEN <<Head(order)>> ELSE <<>>)
         \o KeysIn(d, Tail(order))

\* the metadata dict as an object
MetadataObject(md) ==
    LET keys == KeysIn(md, <<"title", "source_url", "document_type",
                             "parliament", "session", "date", "time">>)
    IN  JDict(keys, [n \in 1..Len(keys) |->
                        IF keys[n] = "title" THEN OptionObject(md[keys[n]])
                        ELSE JStr(md[keys[n]])])

\* the dict of a question as an object
QuestionObject(q) ==
    LET keys == KeysIn(q, <<"question_number", "asked_by", "minister", "section",
                            "parts", "question_text">>)
    IN  JDict(keys, [n \in 1..Len(keys) |->
                        CASE keys[n] = "section" -> OptionObject(q[keys[n]])
                          [] keys[n] = "parts" -> JList(StrObjects(q[keys[n]]))
                          [] OTHER -> JStr(q[keys[n]])])

\* a success result as an object
ResultObject(r) ==
    JDict(<<"metadata", "questions", "question_count", "status">>,
          <<MetadataObject(r.metadata),
            JList([n \in 1..Len(r.questions) |-> QuestionObject(r.questions[n])]),
            JInt(r.question_count),
            JStr(r.status)>>)

(***************************************************************************)
(* Inputs: the url of the call, and what the fetch of it gives.            *)
(***************************************************************************)
MaxLines == 3

Urls == {"https://www.parliament.gov.zm/node/1", "https://www.parliament.gov.zm/node/2"}

\* str(e) of what requests.get or raise_for_status raised
FetchFailures == {"Read timed out.", "404 Client Error: Not Found"}

ContainerMissing == "Could not find the main content div"

Vocabulary ==
    {"QUESTIONS FOR ORAL ANSWER",
     "12 Mr Banda - to ask the Minister of Health:",
     "(a) What is the budget?",
     "(B) When will it be paid?",
     "continued here",
     "MOTIONS"}

\* the example of the specification's section 8
ExampleLines ==
    <<"QUESTIONS FOR ORAL ANSWER",
      "12 Mr Banda - to ask the Minister of Health:",
      "(a) What is the budget?",
      "continued here",
      "13 Mrs Phiri - to ask the Minister of Education",
      "MOTIONS">>

\* an order paper with its heading
OrderPaperLines ==
    <<"NATIONAL ASSEMBLY OF ZAMBIA",
      "FIRST SESSION OF THE THIRTEENTH ASSEMBLY",
      "ORDER PAPER - FRIDAY, 1ST AUGUST, 2025",
      "AT 0900 HOURS",
      "QUESTIONS FOR ORAL ANSWER",
      "7 Ms Zulu - to ask the Minister of Finance and National Planning:",
      "whether the Government has any plans to construct a bridge:",
      "(a) if so, when; and",
      "ORDERS OF THE DAY">>

\* lines that more than one guard of the segmenter accepts, a second header,
\* a line with "to ask the" whose number is not followed by whitespace, and a
\* marker line with the time of the sitting
EdgeLines ==
    {"13 Mrs Phiri - to ask the Minister of Education",
     "NOTICES OF MOTIONS AND QUESTIONS FOR ORAL ANSWER",
     "14 Mr Zulu - to ask the Vice President about the ORDERS OF THE DAY",
     "15 Ms Tembo - to ask the Minister about QUESTIONS FOR ORAL ANSWER:",
     "(c) as listed under QUESTIONS FOR ORAL ANSWER",
     "(d) notice of MOTIONS",
     "12a Mr Banda - to ask the Minister of Health:",
     "QUESTIONS FOR ORAL ANSWER AT 1430 HOURS"}

\* an edge line early in a document, and one met while a question is open
EdgeDocuments ==
    {<<a, e, b>> : a \in Vocabulary, e \in EdgeLines, b \in Vocabulary}
    \cup {<<"QUESTIONS FOR ORAL ANSWER",
            "12 Mr Banda - to ask the Minister of Health:", a, e, b>> :
            a \in Vocabulary, e \in EdgeLines, b \in Vocabulary}

Documents == UNION {[1..n -> Vocabulary] : n \in 0..MaxLines} \cup EdgeDocuments

\* a question with a line between its header and its sub-parts, and with lines
\* after two sub-parts that are not sub-parts
ContinuedLines ==
    <<"QUESTIONS FOR ORAL ANSWER",
      "12 Mr Banda - to ask the Minister of Health:",
      "whether the Government is aware of the shortage:",
      "(a) What is the budget?",
      "(B) When will it be paid?",
      "12a Mr Banda - to ask the Minister of Health:",
      "continued here">>

\* an order paper whose section heading is repeated while a question is open
ResumedLines ==
    <<"QUESTIONS FOR ORAL ANSWER",
      "12 Mr Banda - to ask the Minister of Health:",
      "(a) What is the budget?",
      "QUESTIONS FOR ORAL ANSWER AT 1430 HOURS",
      "continued here",
      "(B) When will it be paid?",
      "13 Mrs Phiri - to ask the Minister of Education",
      "(a) What is the budget?">>

\* an order paper with lines that nothing takes, two before the first header
\* and one with "to ask the" after it, and a second question of the header
\* line alone
DroppedLines ==
    <<"QUESTIONS FOR ORAL ANSWER",
      "continued here",
      "(a) What is the budget?",
      "12 Mr Banda - to ask the Minister of Health:",
      "12a Mr Banda - to ask the Minister of Health:",
      "whether the Government is aware of the shortage:",
      "(a) What is the budget?",
      "13 Mrs Phiri - to ask the Minister of Education">>

MaxHeading == 2

\* lines of the heading of an order paper: two for each field of the metadata
\* scan, one of them satisfying the conditions of two fields
HeadingVocabulary ==
    {"NATIONAL ASSEMBLY OF ZAMBIA",
     "FIFTH SESSION OF THE TWELFTH NATIONAL ASSEMBLY OF ZAMBIA",
     "FIRST SESSION OF THE THIRTEENTH ASSEMBLY",
     "SECOND SESSION OF THE THIRTEENTH ASSEMBLY",
     "ORDER PAPER - FRIDAY, 1ST AUGUST, 2025",
     "ORDER PAPER - TUESDAY, 5TH AUGUST, 2025",
     "AT 0900 HOURS",
     "AT 1430 HOURS"}

HeadingDocuments == UNION {[1..n -> HeadingVocabulary] : n \in 1..MaxHeading}

\* documents longer than the prefix of the metadata scan: heading lines as
\* the last line of the prefix and as the first line after it
LongDocuments ==
    {[i \in 1..(MetadataPrefix - 1) |-> "continued here"] \o <<inside, after>> :
        inside \in HeadingVocabulary \cup {"continued here"},
        after \in HeadingVocabulary}

\* what surrounds a line in the container's text
Paddings == {"", " \t"}

\* a text of the container whose lines are those of doc
RECURSIVE RawText(_, _)
RawText(doc, pad) ==
    IF doc = <<>> THEN pad
    ELSE pad \o Head(doc) \o pad \o "\n" \o RawText(Tail(doc), pad)

PageTitle == "Order Paper for Friday, 1st August, 2025"

\* The pages a fetch may give: title is the text of h1#page-title (None when
\* the page has no such element), body is content_div.get_text('\n') (None
\* when the page has no div.field-name-body).
Pages ==
    {[title |-> Some(PageTitle), body |-> Some(RawText(doc, pad))] :
        doc \in Documents, pad \in Paddings}
    \cup {[title |-> None, body |-> Some(RawText(doc, ""))] :
            doc \in {ExampleLines, OrderPaperLines}}
    \cup {[title |-> Some(PageTitle), body |-> Some(RawText(doc, ""))] :
            doc \in HeadingDocuments \cup LongDocuments
                       \cup {ContinuedLines, ResumedLines, DroppedLines}}
    \cup {[title |-> title, body |-> None] : title \in {None, Some(PageTitle)}}

(***************************************************************************)
(* Inputs of process_all_papers: the listing, what the site gives for the  *)
(* papers of the listing, and the datasets folder the run finds.           *)
(***************************************************************************)
MaxPapers == 2

\* the dicts get_order_paper_urls_all_pages returns
PaperLinks ==
    {[url |-> "https://www.parliament.gov.zm/node/1",
      title |-> "Friday, 1st August, 2025", year |-> "2025"],
     [url |-> "https://www.parliament.gov.zm/node/2",
      title |-> "Order-paper for Tuesday, 5th March, 2024", year |-> "2024"]}

\* the listing: sorted by year, the newest first
Listings ==
    {listing \in UNION {[1..n -> PaperLinks] : n \in 0..MaxPapers} :
        \A n \in 1..(Len(listing) - 1) :
            StrToInt(listing[n].year) >= StrToInt(listing[n + 1].year)}

\* the papers of the site: one with a date and a question, one without a
\* date whose question has a line after its header, one whose date is
\* written with strokes
BatchDocuments ==
    {<<"ORDER PAPER - FRIDAY, 1ST AUGUST, 2025",
       "QUESTIONS FOR ORAL ANSWER",
       "12 Mr Banda - to ask the Minister of Health:",
       "(a) what is meant by \"value added\"?",
       "(b) when it was last assessed.">>,
     <<"QUESTIONS FOR ORAL ANSWER",
       "13 Mrs Phiri - to ask the Minister of Education",
       "whether the \"A\\B\" schools\tare open">>,
     <<"ORDER PAPER - FRIDAY, 01/08/2025",
       "MOTIONS">>}

BatchPages ==
    {[title |-> Some(PageTitle), body |-> Some(RawText(doc, ""))] :
        doc \in BatchDocuments}
    \cup {[title |-> Some(PageTitle), body |-> None]}

\* the pages a fetch may give: those of the batch run when the call is made
\* by process_all_papers
Fetchable == IF batch_pc = "none" THEN Pages ELSE BatchPages

\* the datasets folder the run finds: empty, or with a paper file of an
\* earlier run
InitialFolders ==
    {<<>>, [name \in {"datasets/paper_FRIDAY_1ST_AUGUST_2025.json"} |-> "[]"]}

combined_filename == "datasets/all_parliament_questions.json"

(***************************************************************************)
(* File names of process_all_papers.                                       *)
(***************************************************************************)
\* \w, \s or "-": the characters re.sub(r'[^\w\s-]', '', title) keeps
IsTitleChar(c) ==
    \/ IsDigit(c) \/ IsSpace(c) \/ c = "-" \/ c = "_"
    \/ \E n \in 1..Len(UpperLetters) :
           c = Char(UpperLetters, n) \/ c = Char(LowerLetters, n)

\* re.sub(r'[^\w\s-]', '', title)
RECURSIVE SafeTitleFrom(_, _)
SafeTitleFrom(title, p) ==
    IF p > Len(title) THEN ""
    ELSE (IF IsTitleChar(Char(title, p)) THEN Char(title, p) ELSE "")
         \o SafeTitleFrom(title, p + 1)

\* date_str: from the date of the metadata, or else from the title and year
\* of the paper
DateStr(md, paper) ==
    LET date_str == Replace(Replace(Get(md, "date", ""), ",", ""), " ", "_")
    IN  IF date_str # "" THEN date_str
        ELSE Replace(SafeTitleFrom(paper.title, 1), " ", "_") \o "_" \o paper.year

PaperFilename(md, paper) == "datasets/paper_" \o DateStr(md, paper) \o ".json"

\* os.path.splitext(name) of a name that ends in ".json"
SplitExt(name) ==
    [base |-> Slice(name, 1, Len(name) - 5), ext |-> Slice(name, Len(name) - 4, Len(name))]

\* f"{base}_{counter}{ext}"
NumberedFilename(original, n) ==
    SplitExt(original).base \o "_" \o IntToStr(n) \o SplitExt(original).ext

\* open(name, 'w') succeeds: the directory of name is the datasets folder,
\* the one directory there is
Openable(name) == ~Contains(Slice(name, Len("datasets/") + 1, Len(name)), "/")

(***************************************************************************)
(* The function, step by step.                                             *)
(***************************************************************************)
\* the function is called on its own: process_all_papers is not running
NoBatch ==
    /\ batch_pc = "none"
    /\ papers = <<>>
    /\ paper_no = 0
    /\ all_results = <<>>
    /\ successful_count = 0
    /\ filename = ""
    /\ original_filename = ""
    /\ counter = 0
    /\ datasets = <<>>
    /\ calls = <<>>
    /\ outcomes = <<>>

Init ==
    /\ pc = "fetch"
    /\ url \in Urls
    /\ metadata = <<>>
    /\ lines = <<>>
    /\ idx = 0
    /\ questions = <<>>
    /\ current_question = None
    /\ in_questions_section = FALSE
    /\ current_section = None
    /\ exc = None
    /\ result = None
    /\ NoBatch

\* an exception with str(e) = message is raised inside the try block
Raise(message) ==
    /\ exc' = Some(message)
    /\ pc' = "except"
    /\ UNCHANGED result

\* Fetch without the four assignments before the loops: questions,
\* current_question, in_questions_section and current_section keep what
\* they held
FetchKeepState ==
    /\ pc = "fetch"
    /\ \/ /\ \E message \in FetchFailures : Raise(message)
          /\ UNCHANGED <<url, metadata, lines, idx, questions, current_question,
                         in_questions_section, current_section>>
       \/ /\ \E page \in Fetchable :
               /\ page.body = None
               /\ metadata' = InitialMetadata(page.title, url)
               /\ Raise(ContainerMissing)
          /\ UNCHANGED <<url, lines, idx, questions, current_question,
                         in_questions_section, current_section>>
       \/ /\ \E page \in Fetchable :
               /\ page.body # None
               /\ metadata' = InitialMetadata(page.title, url)
               /\ lines' = ExtractLines(page.body[1])
          /\ idx' = 1
          /\ pc' = "metadata"
          /\ UNCHANGED <<url, exc, result, questions, current_question,
                         in_questions_section, current_section>>
    /\ UNCHANGED batch

\* the fetch, the title, the container and its lines
Fetch ==
    /\ pc = "fetch"
    /\ \/ /\ \E message \in FetchFailures : Raise(message)
          /\ UNCHANGED <<url, metadata, lines, idx, questions, current_question,
                         in_questions_section, current_section>>
       \/ /\ \E page \in Fetchable :
               /\ page.body = None
               /\ metadata' = InitialMetadata(page.title, url)
               /\ Raise(ContainerMissing)
          /\ UNCHANGED <<url, lines, idx, questions, current_question,
                         in_questions_section, current_section>>
       \/ /\ \E page \in Fetchable :
               /\ page.body # None
               /\ metadata' = InitialMetadata(page.title, url)
               /\ lines' = ExtractLines(page.body[1])
          /\ questions' = <<>>
          /\ current_question' = None
          /\ in_questions_section' = FALSE
          /\ current_section' = None
          /\ idx' = 1
          /\ pc' = "metadata"
          /\ UNCHANGED <<url, exc, result>>
    /\ UNCHANGED batch

\* ScanMetadata as "for line in lines": the scan not cut at the prefix
ScanMetadataAllLines ==
    /\ pc = "metadata"
    /\ IF idx <= Len(lines)
       THEN /\ metadata' = MetadataLine(metadata, lines[idx])
            /\ idx' = idx + 1
            /\ pc' = pc
       ELSE /\ idx' = 1
            /\ pc' = "segment"
            /\ UNCHANGED metadata
    /\ UNCHANGED <<url, lines, questions, current_question,
                   in_questions_section, current_section, exc, result>>
    /\ UNCHANGED batch

\* ScanMetadata that hands the segmenter the lines it has not read: the loop
\* over lines starts after the prefix
ScanMetadataConsumes ==
    /\ pc = "metadata"
    /\ IF idx <= Len(lines) /\ idx <= MetadataPrefix
       THEN /\ metadata' = MetadataLine(metadata, lines[idx])
            /\ idx' = idx + 1
            /\ pc' = pc
       ELSE /\ idx' = idx
            /\ pc' = "segment"
            /\ UNCHANGED metadata
    /\ UNCHANGED <<url, lines, questions, current_question,
                   in_questions_section, current_section, exc, result>>
    /\ UNCHANGED batch

\* for line in lines[:20]
ScanMetadata ==
    /\ pc = "metadata"
    /\ IF idx <= Len(lines) /\ idx <= MetadataPrefix
       THEN /\ metadata' = MetadataLine(metadata, lines[idx])
            /\ idx' = idx + 1
            /\ pc' = pc
       ELSE /\ idx' = 1
            /\ pc' = "segment"
            /\ UNCHANGED metadata
    /\ UNCHANGED <<url, lines, questions, current_question,
                   in_questions_section, current_section, exc, result>>
    /\ UNCHANGED batch

segmenter ==
    [questions |-> questions, current_question |-> current_question,
     in_questions_section |-> in_questions_section,
     current_section |-> current_section]

\* for line in lines: one line; a terminator line or the end of lines ends it
Segment ==
    /\ pc = "segment"
    /\ IF idx <= Len(lines) /\ ClassifyLine(segmenter, lines[idx]) # "terminator"
       THEN LET st == SegmentLine(segmenter, lines[idx])
            IN  /\ questions' = st.questions
                /\ current_question' = st.current_question
                /\ in_questions_section' = st.in_questions_section
                /\ current_section' = st.current_section
                /\ idx' = idx + 1
                /\ pc' = pc
       ELSE /\ pc' = "flush"
            /\ UNCHANGED <<idx, questions, current_question,
                           in_questions_section, current_section>>
    /\ UNCHANGED <<url, metadata, lines, exc, result>>
    /\ UNCHANGED batch

\* if current_question: questions.append(current_question)
Flush ==
    /\ pc = "flush"
    /\ questions' = FlushQuestion(questions, current_question)
    /\ pc' = "cleanup"
    /\ UNCHANGED <<url, metadata, lines, idx, current_question,
                   in_questions_section, current_section, exc, result>>
    /\ UNCHANGED batch

\* for question in questions: ...; the last of them is current_question too
CleanUp ==
    /\ pc = "cleanup"
    /\ questions' = [i \in 1..Len(questions) |-> CleanQuestion(questions[i])]
    /\ current_question' = IF current_question = None THEN None
                           ELSE Some(CleanQuestion(current_question[1]))
    /\ pc' = "return"
    /\ UNCHANGED <<url, metadata, lines, idx, in_questions_section,
                   current_section, exc, result>>
    /\ UNCHANGED batch

Return ==
    /\ pc = "return"
    /\ result' = Some(SuccessResult(metadata, questions))
    /\ pc' = "done"
    /\ UNCHANGED <<url, metadata, lines, idx, questions, current_question,
                   in_questions_section, current_section, exc>>
    /\ UNCHANGED batch

\* except Exception as e: return {"status": "error", ...}
Except ==
    /\ pc = "except"
    /\ result' = Some(ErrorResult(exc[1], url))
    /\ pc' = "done"
    /\ UNCHANGED <<url, metadata, lines, idx, questions, current_question,
                   in_questions_section, current_section, exc>>
    /\ UNCHANGED batch

Next ==
    Fetch \/ ScanMetadata \/ Segment \/ Flush \/ CleanUp \/ Return \/ Except

Spec == Init /\ [][Next]_vars

(***************************************************************************)
(* process_all_papers, step by step.  The names of a call of               *)
(* extract_parliament_questions hold what the last call left in them until *)
(* the call under way assigns them.                                        *)
(***************************************************************************)
call == <<pc, url, metadata, lines, idx, questions, current_question,
          in_questions_section, current_section, exc, result>>

BatchInit ==
    /\ pc = "idle"
    /\ url = ""
    /\ metadata = <<>>
    /\ lines = <<>>
    /\ idx = 0
    /\ questions = <<>>
    /\ current_question = None
    /\ in_questions_section = FALSE
    /\ current_section = None
    /\ exc = None
    /\ result = None
    /\ batch_pc = "start"
    /\ papers \in Listings
    /\ paper_no = 0
    /\ all_results = <<>>
    /\ successful_count = 0
    /\ filename = ""
    /\ original_filename = ""
    /\ counter = 0
    /\ datasets \in InitialFolders
    /\ calls = <<>>
    /\ outcomes = <<>>

\* the listing is taken; without papers the function returns
StartBatch ==
    /\ batch_pc = "start"
    /\ IF papers = <<>>
       THEN /\ batch_pc' = "returned"
            /\ UNCHANGED <<paper_no, all_results, successful_count>>
       ELSE /\ batch_pc' = "loop"
            /\ paper_no' = 1
            /\ all_results' = <<>>
            /\ successful_count' = 0
    /\ UNCHANGED <<papers, filename, original_filename, counter, datasets,
                   calls, outcomes>>
    /\ UNCHANGED call

\* result = extract_parliament_questions(paper['url']): the call is made
CallExtract ==
    /\ batch_pc = "loop"
    /\ paper_no <= Len(papers)
    /\ url' = papers[paper_no].url
    /\ calls' = Append(calls, papers[paper_no].url)
    /\ pc' = "fetch"
    /\ exc' = None
    /\ result' = None
    /\ batch_pc' = "call"
    /\ UNCHANGED <<metadata, lines, idx, questions, current_question,
                   in_questions_section, current_section>>
    /\ UNCHANGED <<papers, paper_no, all_results, successful_count, filename,
                   original_filename, counter, datasets, outcomes>>

\* the call has returned: a success gets a file name, a failure is printed
\* and the loop goes on
CheckResult ==
    /\ batch_pc = "call"
    /\ pc = "done"
    /\ pc' = "idle"
    /\ IF result[1].status = "success"
       THEN /\ filename' = PaperFilename(result[1].metadata, papers[paper_no])
            /\ original_filename' = filename'
            /\ counter' = 1
            /\ batch_pc' = "name"
            /\ UNCHANGED paper_no
       ELSE /\ paper_no' = paper_no + 1
            /\ batch_pc' = "loop"
            /\ UNCHANGED <<filename, original_filename, counter>>
    /\ UNCHANGED <<url, metadata, lines, idx, questions, current_question,
                   in_questions_section, current_section, exc, result>>
    /\ outcomes' = Append(outcomes, result[1])
    /\ UNCHANGED <<papers, all_results, successful_count, datasets, calls>>

\* while os.path.exists(filename): the next numbered name
UniqueName ==
    /\ batch_pc = "name"
    /\ filename \in DOMAIN datasets
    /\ filename' = NumberedFilename(original_filename, counter)
    /\ counter' = counter + 1
    /\ UNCHANGED <<batch_pc, papers, paper_no, all_results, successful_count,
                   original_filename, datasets, calls, outcomes>>
    /\ UNCHANGED call

\* WriteFile as all_results.insert(0, result)
WriteFilePrepend ==
    /\ batch_pc = "name"
    /\ filename \notin DOMAIN datasets
    /\ IF Openable(filename)
       THEN /\ datasets' = SetKey(datasets, filename, JsonDump(ResultObject(result[1])))
            /\ all_results' = <<result[1]>> \o all_results
            /\ successful_count' = successful_count + 1
            /\ paper_no' = paper_no + 1
            /\ batch_pc' = "loop"
       ELSE /\ batch_pc' = "raised"
            /\ UNCHANGED <<datasets, all_results, successful_count, paper_no>>
    /\ UNCHANGED <<papers, filename, original_filename, counter, calls,
                   outcomes>>
    /\ UNCHANGED call

\* the file is written and the result collected; when the file cannot be
\* opened the exception leaves process_all_papers
WriteFile ==
    /\ batch_pc = "name"
    /\ filename \notin DOMAIN datasets
    /\ IF Openable(filename)
       THEN /\ datasets' = SetKey(datasets, filename, JsonDump(ResultObject(result[1])))
            /\ all_results' = Append(all_results, result[1])
            /\ successful_count' = successful_count + 1
            /\ paper_no' = paper_no + 1
            /\ batch_pc' = "loop"
       ELSE /\ batch_pc' = "raised"
            /\ UNCHANGED <<datasets, all_results, successful_count, paper_no>>
    /\ UNCHANGED <<papers, filename, original_filename, counter, calls,
                   outcomes>>
    /\ UNCHANGED call

\* after the loop: the combined results are written
SaveCombined ==
    /\ batch_pc = "loop"
    /\ paper_no > Len(papers)
    /\ datasets' = SetKey(datasets, combined_filename,
                          JsonDump(JList([n \in 1..Len(all_results) |->
                                             ResultObject(all_results[n])])))
    /\ batch_pc' = "returned"
    /\ UNCHANGED <<papers, paper_no, all_results, successful_count, filename,
                   original_filename, counter, calls, outcomes>>
    /\ UNCHANGED call

BatchNext ==
    \/ StartBatch \/ CallExtract
    \/ Fetch \/ ScanMetadata \/ Segment \/ Flush \/ CleanUp \/ Return \/ Except
    \/ CheckResult \/ UniqueName \/ WriteFile \/ SaveCombined

BatchSpec == BatchInit /\ [][BatchNext]_vars

(***************************************************************************)
(* Properties.                                                             *)
(*                                                                         *)
(* While pc = "segment", idx is the line the loop takes next, so lines     *)
(* 1..idx-1 are the lines it has handled and gone past; after the loop idx *)
(* is the terminator line it broke at, or Len(lines) + 1.                  *)
(***************************************************************************)
Succeeded == pc = "done" /\ result[1].status = "success"

Failed == pc = "done" /\ result[1].status = "error"

\* the loop over lines is over
AfterLoop == pc \in {"flush", "cleanup", "return"} \/ Succeeded

\* the loop over lines is running or over
Segmenting == pc = "segment" \/ AfterLoop

\* the lines the loop has handled and gone past
Handled == IF Segmenting THEN 1..(idx - 1) ELSE {}

\* a line containing "QUESTIONS FOR ORAL ANSWER" comes before line i, so the
\* segmenter is IN_QUESTIONS when it meets line i
SectionOpenBefore(i) == \E j \in 1..(i - 1) : IsSectionMarker(lines[j])

\* the fields of a Question the example of section 8 gives
ExampleFields(q) ==
    [question_number |-> q.question_number, asked_by |-> q.asked_by,
     minister |-> q.minister, parts |-> q.parts]

ExampleResult(minister12, minister13) ==
    <<[question_number |-> "12", asked_by |-> "Mr Banda", minister |-> minister12,
       parts |-> <<"(a) What is the budget? continued here">>],
      [question_number |-> "13", asked_by |-> "Mrs Phiri", minister |-> minister13,
       parts |-> <<>>]>>

ExampleHolds(minister12, minister13) ==
    (pc = "done" /\ lines = ExampleLines) =>
        /\ result[1].status = "success"
        /\ [i \in 1..Len(result[1].questions) |->
               ExampleFields(result[1].questions[i])]
             = ExampleResult(minister12, minister13)
        /\ idx = 6 /\ lines[idx] = "MOTIONS"

\* C1 as stated: on the example lines the result holds question 12 of Mr
\* Banda to minister "Health" with the one part "(a) What is the budget?
\* continued here", then question 13 of Mrs Phiri to minister "Education"
\* with no parts, and the loop stopped at the line "MOTIONS".
C1_ExampleAsStated == ExampleHolds("Health", "Education")

\* C1, amended: the same, with minister "Minister of Health" and "Minister of
\* Education": the minister is all the text after "to ask the ", less the
\* final colon.
C1_Example == ExampleHolds("Minister of Health", "Minister of Education")

C1_Witness == pc = "done" /\ lines = ExampleLines /\ result # None

\* C2: while the segmenter is BEFORE_QUESTIONS (no section marker met yet), a
\* step of the loop leaves questions and current_question as they are,
\* whatever the line.
C2_NothingBeforeSection ==
    [][(pc = "segment" /\ ~in_questions_section) =>
           (questions' = questions /\ current_question' = current_question)]_vars

\* a header line and a sub-part line were handled before any section marker
C2_Witness ==
    /\ pc = "segment" /\ ~in_questions_section
    /\ \E i \in Handled : question_match(lines[i]) # None
    /\ \E i \in Handled : part_match(lines[i])

\* once the loop is over, nothing opens a question, adds to one or changes the
\* section: the one change left to questions is the append of the open question
Absorbing ==
    [][AfterLoop =>
          /\ idx' = idx
          /\ in_questions_section' = in_questions_section
          /\ current_section' = current_section
          /\ current_question' = current_question
          /\ \/ questions' = questions
             \/ /\ pc = "flush" /\ current_question # None
                /\ questions' = Append(questions, current_question[1])]_vars

\* C3 as stated: the loop never goes past a line that contains "MOTIONS",
\* "ORDERS OF THE DAY" or "HIS HONOUR THE VICE PRESIDENT'S QUESTION TIME" and
\* is met while IN_QUESTIONS.
C3_StopsAsStated ==
    \A i \in Handled : ~(SectionOpenBefore(i) /\ IsTerminator(lines[i]))

\* C3, amended: the loop never goes past a line that contains a terminator
\* phrase, does not contain "QUESTIONS FOR ORAL ANSWER" and is met while
\* IN_QUESTIONS; when it ends before the end of lines it ends at such a line;
\* and once it has ended no later line has any effect (DONE is absorbing).
C3_Stops ==
    /\ [](\A i \in Handled :
             ~(SectionOpenBefore(i) /\ IsTerminator(lines[i])
               /\ ~IsSectionMarker(lines[i])))
    /\ []((AfterLoop /\ idx <= Len(lines)) =>
             (SectionOpenBefore(idx) /\ IsTerminator(lines[idx])
              /\ ~IsSectionMarker(lines[idx])))
    /\ Absorbing

\* the loop ended at a terminator that a section marker and a header follow
C3_Witness ==
    /\ pc = "done" /\ idx < Len(lines)
    /\ \E i \in (idx + 1)..Len(lines) : IsSectionMarker(lines[i])
    /\ \E i \in (idx + 1)..Len(lines) : question_match(lines[i]) # None

(***************************************************************************)
(* The lines by the role the segmenter gives them, told from the text of   *)
(* the lines alone.                                                        *)
(***************************************************************************)
\* line i matches the header pattern and is met while IN_QUESTIONS
MatchesHeaderInSection(i) ==
    SectionOpenBefore(i) /\ question_match(lines[i]) # None

\* line i is taken as a header: it matches the header pattern, is met while
\* IN_QUESTIONS and is not taken as a section marker
HeaderLine(i) == MatchesHeaderInSection(i) /\ ~IsSectionMarker(lines[i])

\* line i is taken as a sub-part when a question is open: it starts with a
\* parenthesised letter and is neither a section marker nor a header
SubPartLine(i) ==
    /\ part_match(lines[i])
    /\ ~IsSectionMarker(lines[i])
    /\ question_match(lines[i]) = None

Headers == {i \in Handled : HeaderLine(i)}

\* the k-th smallest element of the set S of numbers
Kth(S, k) == CHOOSE i \in S : Cardinality({j \in S : j <= i}) = k

\* the questions assembled so far, the open one last
Assembled ==
    IF Succeeded THEN result[1].questions
    ELSE IF pc \in {"segment", "flush"} /\ current_question # None
    THEN Append(questions, current_question[1])
    ELSE questions

\* question q was built from the header line text
BuiltFrom(q, text) ==
    LET groups == question_match(text)[1]
    IN  /\ q.question_number = groups[1]
        /\ q.asked_by = Strip(groups[2])
        /\ q.minister = Strip(groups[3])

FlushedOnce ==
    [][pc = "flush" =>
          questions' = IF current_question = None THEN questions
                       ELSE Append(questions, current_question[1])]_vars

\* C4 as stated, with a header line read as any line that matches the header
\* pattern: once the loop and its flush are over, there are as many Questions
\* as lines that match the header pattern and were met while IN_QUESTIONS.
C4_CountAsStated ==
    (pc \in {"cleanup", "return"} \/ Succeeded) =>
        Len(Assembled) = Cardinality({i \in Handled : MatchesHeaderInSection(i)})

\* C4: the flush after the loop appends the open Question, once, whether the
\* loop ended at a terminator or at the end of lines; at every point there is
\* one Question (the open one included until it is flushed) per header line
\* handled, the k-th built from the k-th header line, and so it is in the
\* result.  A header line is a line taken as a header: one that matches the
\* header pattern, met while IN_QUESTIONS, without "QUESTIONS FOR ORAL ANSWER".
C4_NoQuestionLost ==
    /\ [](Segmenting =>
            /\ Len(Assembled) = Cardinality(Headers)
            /\ \A k \in 1..Len(Assembled) :
                   BuiltFrom(Assembled[k], lines[Kth(Headers, k)]))
    /\ []((pc \in {"cleanup", "return"} \/ Succeeded) =>
             Len(questions) = Cardinality(Headers))
    /\ FlushedOnce

\* two questions with different headers, the second open when lines ran out
C4_Witness ==
    /\ Succeeded /\ idx = Len(lines) + 1
    /\ Len(result[1].questions) >= 2
    /\ result[1].questions[1].question_number
         # result[1].questions[2].question_number

\* what a header line does to questions and current_question
StartsQuestion ==
    /\ questions' = IF current_question = None THEN questions
                    ELSE Append(questions, current_question[1])
    /\ current_question' # None
    /\ DOMAIN current_question'[1]
         = {"question_number", "asked_by", "minister", "section", "parts"}
    /\ current_question'[1].parts = <<>>
    /\ BuiltFrom(current_question'[1], lines[idx])

AtLine == pc = "segment" /\ idx <= Len(lines)

\* C5 as stated: while IN_QUESTIONS, every line that matches the header
\* pattern starts a new Question.
C5_HeaderAsStated ==
    [][(AtLine /\ in_questions_section /\ question_match(lines[idx]) # None)
          => StartsQuestion]_vars

\* C5, amended: while IN_QUESTIONS, a line that matches the header pattern and
\* contains neither "QUESTIONS FOR ORAL ANSWER" nor a terminator phrase starts
\* a new Question whatever the state of the open one: the open one, if any,
\* is appended to questions as it is, and the new one has no parts and no
\* question_text.
C5_HeaderStartsQuestion ==
    [][(AtLine /\ in_questions_section /\ question_match(lines[idx]) # None
        /\ ~IsSectionMarker(lines[idx]) /\ ~IsTerminator(lines[idx]))
          => StartsQuestion]_vars

\* a header line has just flushed a question that has no parts
C5_Witness ==
    /\ pc = "segment" /\ idx > 1 /\ HeaderLine(idx - 1)
    /\ questions # <<>>
    /\ questions[Len(questions)].parts = <<>>
    /\ current_question # None

\* the sub-part lines handled after the k-th header line and before the next
PartLinesOf(k) ==
    LET first == Kth(Headers, k) + 1
        last == IF k < Cardinality(Headers) THEN Kth(Headers, k + 1) - 1
                ELSE idx - 1
    IN  {i \in first..last : SubPartLine(i)}

StartsWith(s, prefix) == Slice(s, 1, Len(prefix)) = prefix

\* the lines after the k-th header line and before the next that start with
\* a parenthesised letter
PartLikeLinesOf(k) ==
    LET first == Kth(Headers, k) + 1
        last == IF k < Cardinality(Headers) THEN Kth(Headers, k + 1) - 1
                ELSE idx - 1
    IN  {i \in first..last : part_match(lines[i])}

\* C6 as stated, with a sub-part line read as any line that starts with a
\* parenthesised letter: the i-th part of a Question begins with the i-th such
\* line handled between its header line and the next.
C6_PartsAsStated ==
    Segmenting =>
        \A k \in 1..Len(Assembled) :
            \A n \in 1..Len(Assembled[k].parts) :
                /\ Cardinality(PartLikeLinesOf(k)) >= n
                /\ StartsWith(Assembled[k].parts[n],
                              lines[Kth(PartLikeLinesOf(k), n)])

\* C6, amended: the parts of the k-th Question are, one for one and in source
\* order, the sub-part lines handled between its header line and the next
\* header line (or the end of the loop), the i-th part beginning with the
\* i-th of them, so that no sub-part line is in the parts of another
\* Question.  A sub-part line is a line that starts with a parenthesised
\* letter and does not contain "QUESTIONS FOR ORAL ANSWER".
C6_PartsInOrder ==
    Segmenting =>
        \A k \in 1..Len(Assembled) :
            /\ Len(Assembled[k].parts) = Cardinality(PartLinesOf(k))
            /\ \A n \in 1..Len(Assembled[k].parts) :
                   StartsWith(Assembled[k].parts[n], lines[Kth(PartLinesOf(k), n)])

\* a Question of the result with two parts that differ
C6_Witness ==
    /\ Succeeded
    /\ \E k \in 1..Len(result[1].questions) :
           /\ Len(result[1].questions[k].parts) >= 2
           /\ ~StartsWith(result[1].questions[k].parts[2],
                          result[1].questions[k].parts[1])
           /\ ~StartsWith(result[1].questions[k].parts[1],
                          result[1].questions[k].parts[2])

\* C7: a Question in questions (one flushed by a header line or by the end of
\* the loop) stays as it is and where it is in every later step, and the
\* result holds it unchanged.
C7_FlushedImmutable ==
    /\ [][Segmenting =>
            \A k \in 1..Len(questions) :
                Len(questions') >= k /\ questions'[k] = questions[k]]_vars
    /\ [](Succeeded => result[1].questions = questions)

\* with one Question flushed, a sub-part line was added to the next one
C7_Witness ==
    /\ pc = "segment" /\ questions # <<>>
    /\ current_question # None /\ current_question[1].parts # <<>>

\* C8: in a success result question_count is the length of questions.
C8_CountIsLength ==
    Succeeded => result[1].question_count = Len(result[1].questions)

C8_Witness ==
    /\ Succeeded /\ result[1].question_count >= 2
    /\ \E k \in 1..Len(result[1].questions) : result[1].questions[k].parts = <<>>

\* C9: when the lines of the document hold no "QUESTIONS FOR ORAL ANSWER" line
\* the call ends with status "success", questions [] and question_count 0;
\* an error result comes only from an exception (a failed fetch, a missing
\* container), never from finding no questions.
C9_NoSectionNoQuestions ==
    /\ (pc = "done" /\ exc = None
        /\ \A i \in 1..Len(lines) : ~IsSectionMarker(lines[i])) =>
           /\ result[1].status = "success"
           /\ result[1].questions = <<>>
           /\ result[1].question_count = 0
    /\ Failed => (exc # None /\ exc[1] \in FetchFailures \cup {ContainerMissing})

\* a success on lines with headers and sub-parts but no section marker
C9_Witness ==
    /\ Succeeded /\ result[1].questions = <<>>
    /\ \A i \in 1..Len(lines) : ~IsSectionMarker(lines[i])
    /\ \E i \in 1..Len(lines) : question_match(lines[i]) # None
    /\ \E i \in 1..Len(lines) : part_match(lines[i])

\* the places of the function in the order a call passes them
Stage(at) ==
    CASE at = "fetch" -> 0
      [] at = "metadata" -> 1
      [] at = "segment" -> 2
      [] at = "flush" -> 3
      [] at = "cleanup" -> 4
      [] at \in {"return", "except"} -> 5
      [] at = "done" -> 6

\* every step moves a loop to its next line or the call to a later place
Progress ==
    [][\/ Stage(pc') > Stage(pc)
       \/ pc' = pc /\ idx <= Len(lines) /\ idx' = idx + 1]_vars

\* C10: every step of a call brings it nearer its end, there is no result
\* before the end, and the call ends, when an exception was raised (a failed
\* fetch, a missing container), with the result {status: "error", message:
\* str(e), url: url} and nothing else in it, and otherwise with {metadata,
\* questions, question_count, status: "success"}.
C10_ErrorOrSuccess ==
    /\ Progress
    /\ [](pc # "done" => result = None)
    /\ [](pc = "done" =>
            /\ result # None
            /\ IF exc # None
               THEN result[1] = [status |-> "error", message |-> exc[1],
                                 url |-> url]
               ELSE /\ DOMAIN result[1]
                         = {"metadata", "questions", "question_count", "status"}
                    /\ result[1].status = "success"
                    /\ result[1].metadata = metadata
                    /\ result[1].questions = questions)

\* the call ended with an error result for a page without the container
C10_Witness ==
    /\ Failed /\ exc = Some(ContainerMissing) /\ metadata # <<>>
    /\ result[1].url = url

(***************************************************************************)
(* The metadata scan, told from the text of the lines alone.               *)
(***************************************************************************)
ScanFields == {"parliament", "session", "date", "time"}

\* the condition of a field of the metadata scan, on one line
FieldCondition(f, line) ==
    CASE f = "parliament" -> Contains(line, "NATIONAL ASSEMBLY OF ZAMBIA")
      [] f = "session" -> Contains(line, "SESSION OF THE") /\ Contains(line, "ASSEMBLY")
      [] f = "date" -> /\ Contains(line, "ORDER PAPER")
                       /\ \E day \in Weekdays : Contains(line, day)
      [] f = "time" -> Contains(line, "AT") /\ Contains(line, "HOURS")

\* what a line gives a field: the line, for date less "ORDER PAPER - "
FieldValue(f, line) ==
    IF f = "date" THEN Replace(line, "ORDER PAPER - ", "") ELSE line

\* the lines the metadata scan inspects
Prefix == {i \in 1..Len(lines) : i <= MetadataPrefix}

\* the lines of the prefix that satisfy the condition of field f
Matches(f) == {i \in Prefix : FieldCondition(f, lines[i])}

\* the metadata scan is over
Scanned == pc \in {"segment", "flush", "cleanup", "return"} \/ Succeeded

\* the fields in the order the scan tests their conditions
FieldOrder == <<"parliament", "session", "date", "time">>

\* line is a matching line for field f: it satisfies the condition of f and of
\* no field tested before f
SetsField(f, line) ==
    /\ FieldCondition(f, line)
    /\ \A k \in 1..Len(FieldOrder) :
           FieldCondition(FieldOrder[k], line) =>
               \A j \in 1..Len(FieldOrder) : FieldOrder[j] = f => k >= j

\* the matching lines of the prefix for field f
Setters(f) == {i \in Prefix : SetsField(f, lines[i])}

\* C11: in the metadata scan a field that is set is not overwritten by a later
\* line, and after the scan each of parliament, session, date and time that
\* has a matching line in the prefix holds the value of the first such line.
C11_FirstMatchWins ==
    /\ [][pc = "metadata" =>
            \A f \in ScanFields \cap DOMAIN metadata :
                metadata'[f] = metadata[f]]_vars
    /\ [](Scanned =>
            \A f \in ScanFields :
                Setters(f) # {} =>
                    /\ f \in DOMAIN metadata
                    /\ metadata[f] = FieldValue(f, lines[Min(Setters(f))]))

\* C12: the metadata scan sets nothing from a line after the first 20 and
\* nothing is set once it is over; each of parliament, session, date and time
\* that is set holds the value of a line of the prefix that satisfies its
\* condition, and a field with no such line in the prefix is missing; a call
\* that raised nothing ends in success, with source_url and document_type in
\* the metadata of the result.
C12_PrefixOnly ==
    /\ [][((pc = "metadata" /\ idx > MetadataPrefix) \/ Scanned) =>
             metadata' = metadata]_vars
    /\ [](Scanned =>
            \A f \in ScanFields :
                IF Matches(f) = {} THEN f \notin DOMAIN metadata
                ELSE f \in DOMAIN metadata =>
                         \E i \in Matches(f) : metadata[f] = FieldValue(f, lines[i]))
    /\ []((pc = "done" /\ exc = None) =>
            /\ Succeeded
            /\ {"source_url", "document_type"} \subseteq DOMAIN result[1].metadata
            /\ result[1].metadata["source_url"] = url
            /\ result[1].metadata["document_type"] = "Order Paper")

\* a success on a document whose line 20 set a field and whose line 21
\* satisfies the condition of a field that is missing from the result
C12_Witness ==
    /\ Succeeded /\ Len(lines) > MetadataPrefix
    /\ \E f \in ScanFields :
           /\ FieldCondition(f, lines[MetadataPrefix + 1])
           /\ f \notin DOMAIN result[1].metadata
    /\ \E f \in ScanFields :
           /\ f \in DOMAIN result[1].metadata
           /\ result[1].metadata[f] = FieldValue(f, lines[MetadataPrefix])

(***************************************************************************)
(* What one step of the loop does, by the action it takes on lines[idx].   *)
(***************************************************************************)
\* the loop goes on to the next line
Advances == pc' = "segment" /\ idx' = idx + 1

\* the line is consumed as a section marker
DoesEnterSection ==
    /\ Advances
    /\ in_questions_section' /\ current_section' = Some(lines[idx])
    /\ UNCHANGED <<questions, current_question>>

\* the loop ends at the line, which has no other effect
DoesTerminate ==
    /\ pc' = "flush"
    /\ UNCHANGED <<idx, questions, current_question, in_questions_section,
                   current_section>>

\* the line opens a Question in the section that is current
DoesStartQuestion ==
    /\ Advances
    /\ StartsQuestion
    /\ current_question'[1].section = current_section
    /\ UNCHANGED <<in_questions_section, current_section>>

\* the line becomes the last part of the open Question
DoesAppendPart ==
    /\ Advances
    /\ current_question # None
    /\ current_question' =
           Some([current_question[1] EXCEPT !.parts = Append(@, lines[idx])])
    /\ UNCHANGED <<questions, in_questions_section, current_section>>

\* the line is joined to the last part of the open Question
DoesContinuePart ==
    /\ Advances
    /\ current_question # None /\ current_question[1].parts # <<>>
    /\ current_question' =
           Some([current_question[1] EXCEPT
                   !.parts[Len(current_question[1].parts)] = @ \o " " \o lines[idx]])
    /\ UNCHANGED <<questions, in_questions_section, current_section>>

\* the line is joined to question_text of the open Question
DoesContinueHeader ==
    /\ Advances
    /\ current_question # None
    /\ DOMAIN current_question'[1] = DOMAIN current_question[1] \cup {"question_text"}
    /\ \A k \in DOMAIN current_question[1] \ {"question_text"} :
           current_question'[1][k] = current_question[1][k]
    /\ current_question'[1]["question_text"] =
           (IF "question_text" \in DOMAIN current_question[1]
            THEN current_question[1]["question_text"] ELSE "") \o " " \o lines[idx]
    /\ UNCHANGED <<questions, in_questions_section, current_section>>

\* the line is dropped
DoesDrop ==
    /\ Advances
    /\ UNCHANGED <<questions, current_question, in_questions_section,
                   current_section>>

Open == current_question # None

\* C17: while IN_QUESTIONS a step of the loop takes the action of the first
\* guard, in the order section marker, terminator, header, sub-part,
\* continuation of the last part, continuation of the header, that the line
\* satisfies, and drops the line when it satisfies none.  A line with a
\* terminator phrase (and without the marker, which is tested first) ends
\* the loop even when it matches the header pattern, starts with a
\* parenthesised letter or would continue a part, and questions and the open
\* Question stay as they are.
C17_PriorityOrder ==
    [][(AtLine /\ in_questions_section) =>
          IF IsSectionMarker(lines[idx]) THEN DoesEnterSection
          ELSE IF IsTerminator(lines[idx]) THEN DoesTerminate
          ELSE IF question_match(lines[idx]) # None THEN DoesStartQuestion
          ELSE IF Open /\ part_match(lines[idx]) THEN DoesAppendPart
          ELSE IF Open /\ current_question[1].parts # <<>> THEN DoesContinuePart
          ELSE IF Open /\ ~Contains(lines[idx], "to ask the") THEN DoesContinueHeader
          ELSE DoesDrop]_vars

\* the loop ended, with a Question open that has parts, at a line with a
\* terminator phrase that matches the header pattern
C17_Witness ==
    /\ pc = "flush" /\ idx <= Len(lines)
    /\ IsTerminator(lines[idx]) /\ question_match(lines[idx]) # None
    /\ Open /\ current_question[1].parts # <<>>

\* the lines before the first line that contains "QUESTIONS FOR ORAL ANSWER"
BeforeSection == {i \in 1..Len(lines) : ~SectionOpenBefore(i + 1)}

\* C18: a line with a terminator phrase met before the first "QUESTIONS FOR
\* ORAL ANSWER" line does not end the loop and changes nothing; the loop
\* never ends at such a line, and the header lines handled after a later
\* marker line each give a Question.
C18_TerminatorOnlyInSection ==
    /\ [][(AtLine /\ ~in_questions_section /\ IsTerminator(lines[idx])
           /\ ~IsSectionMarker(lines[idx])) => DoesDrop]_vars
    /\ [](AfterLoop => idx \notin BeforeSection)
    /\ [](Segmenting =>
            /\ Len(Assembled) = Cardinality(Headers)
            /\ \A k \in 1..Len(Assembled) :
                   BuiltFrom(Assembled[k], lines[Kth(Headers, k)]))

\* a success with a Question whose header follows a marker line that
\* follows a line with a terminator phrase
C18_Witness ==
    /\ Succeeded /\ result[1].questions # <<>>
    /\ \E i \in BeforeSection : IsTerminator(lines[i])

\* the last line before line i that contains "QUESTIONS FOR ORAL ANSWER"
SectionOf(i) == lines[Max({j \in 1..(i - 1) : IsSectionMarker(lines[j])})]

\* C19: a line that contains "QUESTIONS FOR ORAL ANSWER" becomes
\* current_section in full and leaves questions and the open Question as
\* they are, also when it matches the header pattern; a Question opened by a
\* header line gets the current_section of that moment, so the section of
\* the k-th Question is the last marker line before its header line, and no
\* Question has section none.
C19_MarkerConsumed ==
    /\ [][(AtLine /\ IsSectionMarker(lines[idx])) => DoesEnterSection]_vars
    /\ [][(AtLine /\ in_questions_section /\ question_match(lines[idx]) # None
           /\ ~IsSectionMarker(lines[idx]) /\ ~IsTerminator(lines[idx])) =>
             (current_question' # None
              /\ current_question'[1].section = current_section)]_vars
    /\ [](Segmenting =>
            \A k \in 1..Len(Assembled) :
                /\ Assembled[k].section # None
                /\ Assembled[k].section = Some(SectionOf(Kth(Headers, k))))

\* a Question of the result whose section is a marker line that matches the
\* header pattern and is more than the phrase
C19_Witness ==
    /\ Succeeded
    /\ \E k \in 1..Len(result[1].questions) :
           /\ result[1].questions[k].section # Some("QUESTIONS FOR ORAL ANSWER")
           /\ question_match(result[1].questions[k].section[1]) # None

\* C20 as stated: while IN_QUESTIONS with a Question open, every line that
\* starts with a parenthesised letter is appended to the parts of the open
\* Question.
C20_SubPartAsStated ==
    [][(AtLine /\ in_questions_section /\ Open /\ part_match(lines[idx]))
          => DoesAppendPart]_vars

\* C20, amended: while IN_QUESTIONS, a line that starts with a parenthesised
\* letter (in either case) and contains neither "QUESTIONS FOR ORAL ANSWER"
\* nor a terminator phrase is, when a Question is open, appended as it is as
\* the new last element of its parts, the earlier parts, the other fields
\* and questions staying as they are; when no Question is open it is dropped.
C20_SubPartAppended ==
    [][(AtLine /\ in_questions_section /\ part_match(lines[idx])
        /\ ~IsSectionMarker(lines[idx]) /\ ~IsTerminator(lines[idx])) =>
          IF Open THEN DoesAppendPart ELSE DoesDrop]_vars

\* a sub-part line with a capital letter is the second part of the open
\* Question, as it is in the document
C20_Witness ==
    /\ pc = "segment" /\ idx > 1 /\ Open
    /\ Len(current_question[1].parts) >= 2
    /\ current_question[1].parts[Len(current_question[1].parts)] = lines[idx - 1]
    /\ Lower(lines[idx - 1]) # lines[idx - 1]

(***************************************************************************)
(* Properties of process_all_papers.                                       *)
(***************************************************************************)
\* process_all_papers is over: it returned, or an exception left it
BatchOver == batch_pc \in {"returned", "raised"}

IsSuccess(r) == r.status = "success"

\* the results of the calls so far that are successes, in the order of the
\* calls
Successes == SelectSeq(outcomes, IsSuccess)

ResultObjects(rs) == JList([n \in 1..Len(rs) |-> ResultObject(rs[n])])

\* C13: the calls of the extraction are made for the papers of the listing,
\* one call for each paper and in the order of the listing, and when
\* process_all_papers is over every paper of the listing has been passed to
\* the extraction, whatever the calls before it returned.
C13_EveryPaperExtracted ==
    /\ Len(calls) <= Len(papers)
    /\ \A n \in 1..Len(calls) : calls[n] = papers[n].url
    /\ BatchOver => Len(calls) = Len(papers)

RECURSIVE ScanFrom(_, _, _)
ScanFrom(md, ls, n) ==
    IF n > Len(ls) \/ n > MetadataPrefix THEN md
    ELSE ScanFrom(MetadataLine(md, ls[n]), ls, n + 1)

RECURSIVE SegmentFrom(_, _, _)
SegmentFrom(st, ls, n) ==
    IF n > Len(ls) \/ ClassifyLine(st, ls[n]) = "terminator" THEN st
    ELSE SegmentFrom(SegmentLine(st, ls[n]), ls, n + 1)

FreshSegmenter ==
    [questions |-> <<>>, current_question |-> None,
     in_questions_section |-> FALSE, current_section |-> None]

Extraction(title, u, ls) ==
    LET st == SegmentFrom(FreshSegmenter, ls, 1)
        qs == FlushQuestion(st.questions, st.current_question)
    IN  SuccessResult(ScanFrom(InitialMetadata(title, u), ls, 1),
                      [n \in 1..Len(qs) |-> CleanQuestion(qs[n])])

\* C15: the result a call returns is a function of the url and of the
\* document fetched (the title of the page and the lines of its container)
\* alone, the same whatever the calls before it left behind: the result of
\* the extraction started afresh on these lines, or for a call that raised
\* the error result of its exception.
C15_NoStateAcrossDocuments ==
    pc = "done" =>
        IF exc = None
        THEN result[1] = Extraction(metadata["title"], url, lines)
        ELSE result[1] = ErrorResult(exc[1], url)

\* a call has returned a success with questions after an earlier call
\* returned a success with other questions
C15_Witness ==
    /\ pc = "done" /\ exc = None /\ result[1].questions # <<>>
    /\ outcomes # <<>> /\ IsSuccess(outcomes[1])
    /\ outcomes[1].questions # <<>>
    /\ outcomes[1].questions # result[1].questions

\* C16: the text written for a success result, read back, gives the object
\* that was written: the same metadata, the same questions in the same
\* order, each with the same parts in the same order and the same
\* question_text if it has one, the same question_count and status; and so
\* for the combined results.
C16_RoundTrip ==
    /\ [][(batch_pc = "name" /\ batch_pc' = "loop") =>
             JsonLoad(datasets'[filename]) = ResultObject(result[1])]_vars
    /\ []((batch_pc = "returned" /\ papers # <<>>) =>
             JsonLoad(datasets[combined_filename]) = ResultObjects(all_results))

\* written and read back: a question with two parts, one with quotation
\* marks, and a question with a question_text that holds a tab
C16_Witness ==
    /\ batch_pc = "returned" /\ Len(all_results) = 2
    /\ \E n \in 1..2 :
           /\ Len(all_results[n].questions[1].parts) = 2
           /\ Contains(all_results[n].questions[1].parts[1], "\"")
    /\ \E n \in 1..2 :
           /\ "question_text" \in DOMAIN all_results[n].questions[1]
           /\ Contains(all_results[n].questions[1]["question_text"], "\t")

(***************************************************************************)
(* Continuation lines, dropped lines and the lines that reach parts.       *)
(***************************************************************************)
\* the line at idx is neither a section marker, a terminator, a header nor a
\* sub-part
PlainLine ==
    /\ ~IsSectionMarker(lines[idx]) /\ ~IsTerminator(lines[idx])
    /\ question_match(lines[idx]) = None /\ ~part_match(lines[idx])

\* C21: while a Question is open and has parts, a line that is neither a
\* section marker, a terminator, a header nor a sub-part is joined, after one
\* space, to the last element of parts, also when it contains "to ask the":
\* parts keeps its length and its earlier elements, question_text and the
\* other fields of the open Question, questions and the section stay as they
\* are, and the loop goes on to the next line.
C21_ContinuationJoined ==
    [][(AtLine /\ Open /\ current_question[1].parts # <<>> /\ PlainLine) =>
          LET old == current_question[1]
              new == current_question'[1]
              n == Len(old.parts)
          IN  /\ DoesContinuePart
              /\ Len(new.parts) = n
              /\ \A i \in 1..(n - 1) : new.parts[i] = old.parts[i]
              /\ new.parts[n] = old.parts[n] \o " " \o lines[idx]
              /\ DOMAIN new = DOMAIN old
              /\ \A k \in DOMAIN old \ {"parts"} : new[k] = old[k]]_vars

\* a line with "to ask the" that does not match the header pattern has just
\* been joined to the second part of the open Question
C21_Witness ==
    /\ pc = "segment" /\ idx > 1 /\ Open
    /\ Contains(lines[idx - 1], "to ask the")
    /\ question_match(lines[idx - 1]) = None
    /\ LET parts == current_question[1].parts
       IN  /\ Len(parts) >= 2
           /\ \E part \in {lines[i] : i \in 1..(idx - 2)} :
                  parts[Len(parts)] = part \o " " \o lines[idx - 1]

\* the lines handled after the k-th header line and before the first sub-part
\* line of its Question (or the next header line, or the end of the loop)
\* that are joined to question_text: no section marker, no header, no
\* "to ask the"
HeaderTextLinesOf(k) ==
    LET first == Kth(Headers, k) + 1
        last == IF k < Cardinality(Headers) THEN Kth(Headers, k + 1) - 1
                ELSE idx - 1
        stop == Min(PartLinesOf(k) \cup {last + 1})
    IN  {i \in first..(stop - 1) :
            /\ ~IsSectionMarker(lines[i])
            /\ question_match(lines[i]) = None
            /\ ~Contains(lines[i], "to ask the")}

\* the lines of the set S of line numbers, in source order, a space before each
RECURSIVE Joined(_)
Joined(S) ==
    IF S = {} THEN ""
    ELSE Joined(S \ {Max(S)}) \o " " \o lines[Max(S)]

\* question_text of q is what the lines of S give
HasQuestionText(q, S) ==
    IF S = {} THEN "question_text" \notin DOMAIN q
    ELSE "question_text" \in DOMAIN q /\ q["question_text"] = Joined(S)

\* the line at idx is neither a header nor a sub-part and has no "to ask the"
HeaderTextLine ==
    /\ question_match(lines[idx]) = None /\ ~part_match(lines[idx])
    /\ ~Contains(lines[idx], "to ask the")

\* C22 as stated: while a Question is open and has no parts, every line that
\* is neither a header nor a sub-part and does not contain "to ask the" is
\* joined to question_text of the open Question.
C22_HeaderTextAsStated ==
    [][(AtLine /\ Open /\ current_question[1].parts = <<>> /\ HeaderTextLine)
          => DoesContinueHeader]_vars

\* C22, amended: while a Question is open and has no parts, a line that is
\* neither a header nor a sub-part and contains neither "to ask the",
\* "QUESTIONS FOR ORAL ANSWER" nor a terminator phrase is joined, after one
\* space, to question_text of the open Question, and parts stays empty.  So
\* question_text of a Question is made of the lines between its header line
\* and its first sub-part line, in source order, and of no other line; a step
\* of the loop on a Question that has parts leaves its question_text as it is.
C22_HeaderTextJoined ==
    /\ [][(AtLine /\ Open /\ current_question[1].parts = <<>> /\ HeaderTextLine
           /\ ~IsSectionMarker(lines[idx]) /\ ~IsTerminator(lines[idx])) =>
             (DoesContinueHeader /\ current_question'[1].parts = <<>>)]_vars
    /\ [](Segmenting =>
            \A k \in 1..Len(Assembled) :
                HasQuestionText(Assembled[k], HeaderTextLinesOf(k)))
    /\ [][(AtLine /\ Open /\ current_question[1].parts # <<>>
           /\ questions' = questions) =>
             /\ current_question' # None
             /\ DOMAIN current_question'[1] = DOMAIN current_question[1]
             /\ "question_text" \in DOMAIN current_question[1] =>
                    current_question'[1]["question_text"]
                      = current_question[1]["question_text"]]_vars

\* a Question of the result with sub-parts whose question_text is the one
\* line between its header line and its first sub-part line, while lines
\* that are not sub-parts follow the sub-parts
C22_Witness ==
    /\ Succeeded
    /\ \E k \in 1..Len(result[1].questions) :
           LET q == result[1].questions[k]
           IN  /\ "question_text" \in DOMAIN q
               /\ q["question_text"] = " " \o lines[Kth(Headers, k) + 1]
               /\ Len(q.parts) >= 2
               /\ q.parts[Len(q.parts)] \notin {lines[i] : i \in 1..Len(lines)}

\* C23: while IN_QUESTIONS a line that no guard takes is dropped: a line that
\* is not a header, met when no Question is open, and a line that is neither
\* a header nor a sub-part and contains "to ask the", met while the open
\* Question has no parts.  (A line that no guard takes is neither consumed as
\* a section marker nor ends the loop as a terminator.)  The step leaves
\* questions, the open Question and the section as they are, raises nothing
\* and goes on to the next line.
C23_Dropped ==
    [][(AtLine /\ in_questions_section
        /\ ~IsSectionMarker(lines[idx]) /\ ~IsTerminator(lines[idx])
        /\ question_match(lines[idx]) = None
        /\ \/ ~Open
           \/ /\ Open /\ current_question[1].parts = <<>>
              /\ ~part_match(lines[idx])
              /\ Contains(lines[idx], "to ask the")) =>
          /\ DoesDrop
          /\ exc' = None /\ UNCHANGED <<metadata, lines, result>>]_vars

\* a success on a document with a line in the section before the first
\* header line, and with a line with "to ask the" that is no header right
\* after a header line, whose Question has the line after it as question_text
C23_Witness ==
    /\ Succeeded
    /\ Headers # {}
    /\ Len(result[1].questions) = Cardinality(Headers)
    /\ \E i \in 1..(Kth(Headers, 1) - 1) :
           SectionOpenBefore(i) /\ ~IsSectionMarker(lines[i])
    /\ \E k \in 1..Len(result[1].questions) :
           LET h == Kth(Headers, k)
               q == result[1].questions[k]
           IN  /\ h + 2 <= Len(lines)
               /\ Contains(lines[h + 1], "to ask the")
               /\ question_match(lines[h + 1]) = None
               /\ ~IsSectionMarker(lines[h + 1])
               /\ "question_text" \in DOMAIN q
               /\ q["question_text"] = " " \o lines[h + 2]

(***************************************************************************)
(* The questions of the result.                                            *)
(***************************************************************************)
\* question q has a question_text that is empty or all whitespace
BlankText(q) == "question_text" \in DOMAIN q /\ Strip(q["question_text"]) = ""

\* C24: no Question of a success result has a question_text that is empty or
\* all whitespace.  The clean-up removes question_text from the Questions
\* where it is blank and leaves every other Question as it is, so a
\* question_text that is not blank is in the result as the loop left it, and
\* a Question whose header line was followed by no line taken as a
\* continuation of the header has no question_text field.
C24_NoBlankText ==
    /\ [](Succeeded =>
            \A k \in 1..Len(result[1].questions) :
                /\ ~BlankText(result[1].questions[k])
                /\ HasQuestionText(result[1].questions[k], HeaderTextLinesOf(k)))
    /\ [][pc = "cleanup" =>
            /\ Len(questions') = Len(questions)
            /\ \A i \in 1..Len(questions) :
                   IF BlankText(questions[i])
                   THEN /\ DOMAIN questions'[i]
                             = DOMAIN questions[i] \ {"question_text"}
                        /\ \A k \in DOMAIN questions'[i] :
                               questions'[i][k] = questions[i][k]
                   ELSE questions'[i] = questions[i]]_vars

\* a success with a Question that has a question_text and parts, and a
\* Question that has no question_text
C24_Witness ==
    /\ Succeeded
    /\ \E k \in 1..Len(result[1].questions) :
           /\ "question_text" \in DOMAIN result[1].questions[k]
           /\ result[1].questions[k].parts # <<>>
    /\ \E k \in 1..Len(result[1].questions) :
           "question_text" \notin DOMAIN result[1].questions[k]

\* s is a non-empty run of decimal digits
AllDigits(s) == Len(s) >= 1 /\ \A i \in 1..Len(s) : IsDigit(Char(s, i))

\* line starts with a run of decimal digits that whitespace follows
DigitsThenSpace(line) ==
    LET number_end == SkipDigits(line, 1)
    IN  /\ number_end > 1 /\ number_end <= Len(line)
        /\ IsSpace(Char(line, number_end))

\* the step opens no Question: questions is as it was, and the open
\* Question, if there is one, is the one that was open, with its header fields
NoQuestionCreated ==
    /\ questions' = questions
    /\ (current_question' = None) = (current_question = None)
    /\ Open =>
         \A k \in {"question_number", "asked_by", "minister", "section"} :
             current_question'[1][k] = current_question[1][k]

\* C25: the question_number of every Question is a non-empty run of decimal
\* digits, the whole run of digits at the start of its header line, which
\* whitespace follows.  A step of the loop on a line that does not start with
\* digits followed by whitespace opens no Question; when the line starts with
\* a digit (and is not consumed as a section marker or as a terminator) it is
\* joined to the last part, joined to question_text, or dropped.
C25_NumberIsDigits ==
    /\ [](Segmenting =>
            \A k \in 1..Len(Assembled) :
                LET number == Assembled[k].question_number
                    header == lines[Kth(Headers, k)]
                IN  /\ AllDigits(number)
                    /\ StartsWith(header, number)
                    /\ Len(header) > Len(number)
                    /\ IsSpace(Char(header, Len(number) + 1)))
    /\ [][(AtLine /\ ~DigitsThenSpace(lines[idx])) => NoQuestionCreated]_vars
    /\ [][(AtLine /\ in_questions_section /\ ~DigitsThenSpace(lines[idx])
           /\ IsDigit(Char(lines[idx], 1))
           /\ ~IsSectionMarker(lines[idx]) /\ ~IsTerminator(lines[idx])) =>
             (DoesContinuePart \/ DoesContinueHeader \/ DoesDrop)]_vars

\* a success with a Question, on a document with a line in the section that
\* has " - to ask the " and starts with digits that a letter follows
C25_Witness ==
    /\ Succeeded /\ result[1].questions # <<>>
    /\ Len(result[1].questions) = Cardinality(Headers)
    /\ \E i \in Handled :
           /\ SectionOpenBefore(i)
           /\ IsDigit(Char(lines[i], 1)) /\ ~DigitsThenSpace(lines[i])
           /\ Contains(lines[i], " - to ask the ")

\* C26: a line that contains "QUESTIONS FOR ORAL ANSWER" met while IN_QUESTIONS
\* becomes current_section, and the step leaves questions and the open
\* Question as they are.  So every Question has the section that was current
\* at its header line, the last marker line before it: a Question that was
\* open at the marker line keeps its section and still gets the sub-part
\* lines that follow until the next header line, and a Question opened after
\* the marker line has that line as its section.
C26_MarkerInSection ==
    /\ [][(AtLine /\ in_questions_section /\ IsSectionMarker(lines[idx])) =>
             /\ DoesEnterSection
             /\ current_section' = Some(lines[idx])
             /\ current_question' = current_question
             /\ questions' = questions]_vars
    /\ [](Segmenting =>
            \A k \in 1..Len(Assembled) :
                /\ Assembled[k].section = Some(SectionOf(Kth(Headers, k)))
                /\ Len(Assembled[k].parts) = Cardinality(PartLinesOf(k)))

\* a success with a Question whose header line is followed by a marker line
\* that is not its section, a line joined to its first part and a sub-part
\* line that is its second part, and whose next Question has the marker line
\* as its section
C26_Witness ==
    /\ Succeeded
    /\ \E k \in 1..(Len(result[1].questions) - 1) :
           LET q == result[1].questions[k]
               h == Kth(Headers, k)
           IN  \E m \in (h + 1)..(Kth(Headers, k + 1) - 3) :
                   /\ IsSectionMarker(lines[m])
                   /\ q.section # Some(lines[m])
                   /\ Len(q.parts) = 2
                   /\ q.parts[1] = lines[m - 1] \o " " \o lines[m + 1]
                   /\ q.parts[2] = lines[m + 2]
                   /\ result[1].questions[k + 1].section = Some(lines[m])

(***************************************************************************)
(* The metadata scan and the segmenter on the same lines.                  *)
(***************************************************************************)
\* the metadata scan is at a line of the prefix
AtPrefixLine == pc = "metadata" /\ idx <= Len(lines) /\ idx <= MetadataPrefix

\* the step leaves field f of the metadata as it is
KeepsField(f) ==
    /\ (f \in DOMAIN metadata') = (f \in DOMAIN metadata)
    /\ f \in DOMAIN metadata => metadata'[f] = metadata[f]

\* C27: a step of the metadata scan on a line of the prefix sets the first of
\* parliament, session, date and time, in this order, whose condition the line
\* satisfies, and leaves every other field as it is, also the later fields
\* whose conditions the line satisfies too: a line that contains "NATIONAL
\* ASSEMBLY OF ZAMBIA" leaves session, date and time as they are.  So after
\* the scan a field is set only if a line of the prefix satisfies its
\* condition and the condition of no field before it.
C27_OneFieldPerLine ==
    /\ [][AtPrefixLine =>
            /\ \A f \in ScanFields :
                   IF SetsField(f, lines[idx])
                   THEN /\ f \in DOMAIN metadata'
                        /\ metadata'[f] = FieldValue(f, lines[idx])
                   ELSE KeepsField(f)
            /\ Cardinality({f \in ScanFields : ~KeepsField(f)}) <= 1
            /\ Contains(lines[idx], "NATIONAL ASSEMBLY OF ZAMBIA") =>
                   \A f \in {"session", "date", "time"} : KeepsField(f)
            /\ \A f \in DOMAIN metadata \ ScanFields :
                   f \in DOMAIN metadata' /\ metadata'[f] = metadata[f]]_vars
    /\ [](Scanned =>
            \A f \in ScanFields : f \in DOMAIN metadata <=> Setters(f) # {})

\* a success on a document whose prefix has a line that satisfies the
\* conditions of parliament and of session: parliament is that line and
\* session is missing
C27_Witness ==
    /\ Succeeded
    /\ "session" \notin DOMAIN result[1].metadata
    /\ \E i \in Prefix :
           /\ FieldCondition("parliament", lines[i])
           /\ FieldCondition("session", lines[i])
           /\ "parliament" \in DOMAIN result[1].metadata
           /\ result[1].metadata["parliament"] = lines[i]

\* the questions the segmenter, the flush and the clean-up give for the
\* sequence of lines ls, read from its first line
QuestionsOf(ls) ==
    LET st == SegmentFrom(FreshSegmenter, ls, 1)
        qs == FlushQuestion(st.questions, st.current_question)
    IN  [n \in 1..Len(qs) |-> CleanQuestion(qs[n])]

\* as many lines as the prefix has, none of which the segmenter takes
\* before the section
Filler == [i \in 1..MetadataPrefix |-> "continued here"]

\* C28: the metadata scan reads the lines of the prefix and leaves the
\* sequence of lines and the segmenter's state as they are, and the loop of
\* the segmenter starts at the first line whatever the scan has set.  The
\* questions of a success are those the segmenter gives for the whole
\* sequence from its first line, and the same as when the lines come after a
\* prefix of twenty other lines: a marker, a header or a terminator within
\* the first twenty lines is handled as anywhere else.
C28_WholeSequence ==
    /\ [][pc = "metadata" =>
            /\ UNCHANGED <<lines, questions, current_question,
                           in_questions_section, current_section>>
            /\ pc' = "segment" => idx' = 1]_vars
    /\ [](Succeeded =>
            /\ result[1].questions = QuestionsOf(lines)
            /\ result[1].questions = QuestionsOf(Filler \o lines))

\* a success with a Question whose section is a line of the prefix that is
\* the time of the metadata too
C28_Witness ==
    /\ Succeeded
    /\ \E i \in Prefix :
           /\ IsSectionMarker(lines[i])
           /\ "time" \in DOMAIN result[1].metadata
           /\ result[1].metadata["time"] = lines[i]
           /\ \E k \in 1..Len(result[1].questions) :
                  result[1].questions[k].section = Some(lines[i])

(***************************************************************************)
(* The elements of parts.                                                  *)
(***************************************************************************)
\* every element of the parts of q starts with a parenthesised letter
LetteredParts(q) == \A n \in 1..Len(q.parts) : part_match(q.parts[n])

\* C29: every element of the parts of every Question, open, flushed or in the
\* result, starts with a parenthesised single letter.  A step of the loop
\* that keeps the open Question open leaves its parts as they are, or
\* appends the line, a sub-part line, as a new last element, or extends the
\* last element on the right and leaves the others; a Question is opened
\* with no parts.
C29_PartsLettered ==
    /\ [](/\ \A k \in 1..Len(questions) : LetteredParts(questions[k])
          /\ Open => LetteredParts(current_question[1])
          /\ Succeeded =>
                \A k \in 1..Len(result[1].questions) :
                    LetteredParts(result[1].questions[k]))
    /\ [][(AtLine /\ current_question' # None) =>
            LET new == current_question'[1].parts
            IN  IF Open /\ questions' = questions
                THEN LET old == current_question[1].parts
                     IN  \/ new = old
                         \/ new = Append(old, lines[idx]) /\ part_match(lines[idx])
                         \/ /\ old # <<>> /\ Len(new) = Len(old)
                            /\ \A n \in 1..(Len(old) - 1) : new[n] = old[n]
                            /\ StartsWith(new[Len(old)], old[Len(old)])
                ELSE new = <<>>]_vars

\* a success with a Question whose first part starts with a capital letter in
\* parentheses and is more than the sub-part line that began it
C29_Witness ==
    /\ Succeeded
    /\ \E k \in 1..Len(result[1].questions) :
           LET parts == result[1].questions[k].parts
           IN  /\ parts # <<>>
               /\ Lower(Slice(parts[1], 1, 3)) # Slice(parts[1], 1, 3)
               /\ \E i \in 1..Len(lines) :
                      /\ StartsWith(parts[1], lines[i] \o " ")
                      /\ Len(parts[1]) > Len(lines[i]) + 1

(***************************************************************************)
(* The paper files of process_all_papers.                                  *)
(***************************************************************************)
\* the files of the datasets folder other than the combined results
PaperFiles == DOMAIN datasets \ {combined_filename}

\* the calls that returned a success
SuccessfulCalls == {k \in 1..Len(outcomes) : IsSuccess(outcomes[k])}

\* the date string of the file name of the k-th paper
DateStrOf(k) == DateStr(outcomes[k].metadata, papers[k])

\* the paper files named after the date string d that hold the result of a
\* successful call with this date string
FilesOf(d) ==
    {name \in PaperFiles :
        /\ StartsWith(name, "datasets/paper_" \o d)
        /\ \E k \in SuccessfulCalls :
               /\ DateStrOf(k) = d
               /\ datasets[name] = JsonDump(ResultObject(outcomes[k]))}

\* a paper file, once in the folder, stays there with its content
NeverOverwritten ==
    [][\A name \in PaperFiles :
          name \in DOMAIN datasets' /\ datasets'[name] = datasets[name]]_vars

\* the name a paper file is written under is free when it is chosen, and is
\* the first free one of the name from the date string and the names
\* numbered _1, _2, ...; the search has tried no more names than there are
\* files
FreeNameChosen ==
    /\ [][(batch_pc = "name" /\ datasets' # datasets) =>
             /\ filename \notin DOMAIN datasets
             /\ DOMAIN datasets' = DOMAIN datasets \cup {filename}
             /\ filename = original_filename
                \/ /\ filename = NumberedFilename(original_filename, counter - 1)
                   /\ original_filename \in DOMAIN datasets
                   /\ \A n \in 1..(counter - 2) :
                          NumberedFilename(original_filename, n)
                              \in DOMAIN datasets]_vars
    /\ [](batch_pc = "name" => counter <= Cardinality(DOMAIN datasets) + 1)

\* C30: process_all_papers overwrites no paper file: the name written for a
\* successful document was not in the datasets folder when it was chosen,
\* the numbered names _1, _2, ... being tried until one is free, which takes
\* no more steps than there are files; so when the run is over the
\* successful documents that share a date string have as many paper files
\* as they are.
C30_DistinctFiles ==
    /\ NeverOverwritten
    /\ FreeNameChosen
    /\ [](BatchOver =>
            \A k \in SuccessfulCalls :
                Cardinality(FilesOf(DateStrOf(k)))
                  = Cardinality({j \in SuccessfulCalls :
                                    DateStrOf(j) = DateStrOf(k)}))

=========================================================================
